---------------------------- MODULE Spec2Model ----------------------------
(***************************************************************************)
(* A model of jird's core (src/src/jird/core.py): the factor-preserving    *)
(* rational algebra (RatioProduct, Power), the Music representation built  *)
(* by NoteTransformer, the tempering engine and the analysis functions.    *)
(*                                                                         *)
(* Values.  A Fraction is a reduced pair <<n, d>> with d > 0, as Python's  *)
(* fractions.Fraction normalises it.  A Number (what evaluate returns) is  *)
(* a triple <<p, q, r>> standing for the real (p/q)^(1/r): r = 1 for a     *)
(* Fraction, and r > 1 only for the float 2 ** (m/n) of a Power whose      *)
(* exponent m/n is not an integer, in which case p/q is the power of two   *)
(* 2^a with a/r = m/n in lowest terms.  Two floats 2 ** (m/n) are equal    *)
(* exactly when the quotients m/n are, and a float with an integer         *)
(* exponent equals the Fraction of the same value (Python compares and     *)
(* hashes them alike), so the triple is a canonical name of the value.     *)
(* float("inf") is <<1, 0, 1>>.                                            *)
(***************************************************************************)
EXTENDS Integers, Sequences, FiniteSets, TLC

\* ------------------------------------------------------------------ bounds
\* Largest edo (equal divisions of the octave) tempering is tried with.
MaxEdo == 3
\* Largest number of events (Notes and chords) in a parsed Piece.
MaxEvents == 2
\* Largest number of Parts in a Piece.
MaxParts == 2
\* Largest number of frequency-multiply / volume-multiply operators applied.
MaxOps == 2
\* Largest number of factors of an operand of the RatioProduct operators.
MaxFactors == 2

\* ------------------------------------------------------- integer helpers
RECURSIVE GCD(_, _)
GCD(a, b) == IF b = 0 THEN a ELSE GCD(b, a % b)

Abs(x) == IF x < 0 THEN -x ELSE x

RECURSIVE Pow(_, _)
Pow(b, k) == IF k = 0 THEN 1 ELSE b * Pow(b, k - 1)


\* -------------------------------------------------------------- Fraction
\* fractions.Fraction(x, y): the reduced pair with a positive denominator.
Fraction(x, y) ==
    LET g == GCD(Abs(x), Abs(y))
        s == IF y < 0 THEN -1 ELSE 1
    IN  <<(s * x) \div g, (s * y) \div g>>

FracMul(f, g) == Fraction(f[1] * g[1], f[2] * g[2])

FracAdd(f, g) == Fraction(f[1] * g[2] + g[1] * f[2], f[2] * g[2])



\* ------------------------------------------------- unevaluated quantities
\* RatioProduct.__init__ stores the tuple of ratios; a Fraction and a bare
\* tuple of Fractions are the other operands its operators accept.
RP(rs) == [type |-> "RatioProduct", ratios |-> rs]

Fr(f) == [type |-> "Fraction", value |-> f]

Tuple(xs) == [type |-> "tuple", items |-> xs]

List(xs) == [type |-> "list", items |-> xs]

Power(b, m, n) == [type |-> "Power", base |-> b,
                   exponent_numerator |-> m, exponent_denominator |-> n]

\* RatioProduct(x) for x a tuple, a Fraction or a RatioProduct (anything else
\* raises ValueError: the actions never pass it).
RatioProduct(x) ==
    IF x.type = "tuple" THEN RP(x.items)
    ELSE IF x.type = "Fraction" THEN RP(<<x.value>>)
    ELSE RP(x.ratios)

\* prod(ratios, Fraction(1)): the product of a sequence of Fractions.
RECURSIVE prod(_)
prod(rs) ==
    IF rs = <<>> THEN <<1, 1>>
    ELSE FracMul(prod(SubSeq(rs, 1, Len(rs) - 1)), rs[Len(rs)])

\* RatioProduct.__mul__ (self * other) and, for a left operand that is a
\* Fraction or a tuple, RatioProduct.__rmul__ (other * self): Python tries
\* the left operand's __mul__ first, which a Fraction and a tuple decline.
MulSwapped(x, y) == RP(RatioProduct(y).ratios \o RatioProduct(x).ratios)

Mul(x, y) ==
    IF x.type = "RatioProduct"
    THEN RP(x.ratios \o RatioProduct(y).ratios)
    ELSE RP(RatioProduct(x).ratios \o y.ratios)

\* RatioProduct.__eq__: the factor tuples are compared.
EqByValue(x, y) ==
    /\ y.type \in {"RatioProduct", "tuple", "Fraction"}
    /\ prod(x.ratios) = prod(RatioProduct(y).ratios)

Eq(x, y) ==
    IF y.type \notin {"RatioProduct", "tuple", "Fraction"}
    THEN FALSE
    ELSE x.ratios = RatioProduct(y).ratios

\* ---------------------------------------------------------------- Number
Inf == <<1, 0, 1>>

Num(f) == <<f[1], f[2], 1>>

\* The exponent a of a power of two p/q = 2^a.
RECURSIVE Log2Exact(_, _)
Log2Exact(p, q) ==
    IF p = q THEN 0
    ELSE IF p > q THEN 1 + Log2Exact(p \div 2, q)
    ELSE -1 + Log2Exact(p, q \div 2)

RECURSIVE IsPow2(_)
IsPow2(n) == IF n = 1 THEN TRUE ELSE IF n % 2 = 1 THEN FALSE ELSE IsPow2(n \div 2)

IsPowerOfTwo(x) == x[1] > 0 /\ x[2] > 0 /\ IsPow2(x[1]) /\ IsPow2(x[2])

\* x < y on Numbers, as Python orders Fractions, floats and inf exactly.
NumLt(x, y) ==
    IF x[3] = 1 /\ y[3] = 1
    THEN x[1] * y[2] < y[1] * x[2]
    ELSE IF IsPowerOfTwo(x) /\ IsPowerOfTwo(y)
    THEN Log2Exact(x[1], x[2]) * y[3] < Log2Exact(y[1], y[2]) * x[3]
    ELSE IF y = Inf THEN TRUE
    ELSE IF x = Inf THEN FALSE
    ELSE IF x[1] = 0 \/ y[1] = 0 THEN x[1] = 0 /\ y[1] # 0
    \* x^(r r') < y^(r r') for positive reals
    ELSE Pow(x[1], y[3]) * Pow(y[2], x[3]) < Pow(y[1], x[3]) * Pow(x[2], y[3])

NumLe(x, y) == x = y \/ NumLt(x, y)

\* Power.evaluate: base ** (exponent_numerator / exponent_denominator).
PowerEvaluate(pw) ==
    LET g == GCD(Abs(pw.exponent_numerator), pw.exponent_denominator)
        a == pw.exponent_numerator \div g
        r == pw.exponent_denominator \div g
    IN  IF a >= 0 THEN <<Pow(pw.base, a), 1, r>> ELSE <<1, Pow(pw.base, -a), r>>

\* evaluate(quantity): an Unevaluated evaluates itself, a Number is returned.
evaluate(quantity) ==
    IF quantity.type = "RatioProduct" THEN Num(prod(quantity.ratios))
    ELSE IF quantity.type = "Power" THEN PowerEvaluate(quantity)
    ELSE Num(quantity.value)

\* Unevaluated.__lt__, __le__, __gt__, __ge__: on the evaluated values.
Lt(x, y) == NumLt(evaluate(x), evaluate(y))
Le(x, y) == NumLe(evaluate(x), evaluate(y))
Gt(x, y) == NumLt(evaluate(y), evaluate(x))
Ge(x, y) == NumLe(evaluate(y), evaluate(x))

\* ------------------------------------------------------------- rounding
\* floor(log2(A / B)) for integers A >= B >= 1.
RECURSIVE FloorLog2(_, _)
FloorLog2(A, B) == IF A \div 2 >= B THEN 1 + FloorLog2(A \div 2, B) ELSE 0

\* round(edo * math.log2(p/q)) for a Fraction p/q > 0.  With y the real
\* 2*edo*log2(p/q) and k = floor(y), the nearest integer to y/2 is
\* (k + 1) div 2; y/2 is never half an integer, since 2^(odd/(2 edo)) is
\* irrational.
NearestStep(p, q, edo) ==
    IF p >= q
    THEN (FloorLog2(Pow(p, 2 * edo), Pow(q, 2 * edo)) + 1) \div 2
    ELSE -((FloorLog2(Pow(q, 2 * edo), Pow(p, 2 * edo)) + 1) \div 2)

\* Python's round of the rational num/den (den > 0): ties go to even.
RoundHalfEven(num, den) ==
    LET f == num \div den
        rem == num - f * den
    IN  IF 2 * rem < den THEN f
        ELSE IF 2 * rem > den THEN f + 1
        ELSE IF f % 2 = 0 THEN f ELSE f + 1

\* round(edo * math.log2(x)) for a Number x > 0.  The float of a Power is
\* 2^(a/r), whose log2 is a/r.
RoundEdoLog2(edo, x) ==
    IF x[3] = 1 THEN NearestStep(x[1], x[2], edo)
    ELSE RoundHalfEven(edo * Log2Exact(x[1], x[2]), x[3])

\* ----------------------------------------------------------------- Music
\* A Note; a Chord and a Piece are Python tuples, a Part is a Python list.
Note(f, d, v) == [type |-> "Note", frequency |-> f, duration |-> d, volume |-> v]

\* Optional values: None, or an int.
None == [type |-> "None"]

Some(n) == [type |-> "int", value |-> n]

\* The exceptions the functions of Music raise on a value that is no Music.
ValueError(x) == [type |-> "ValueError", args |-> x]

TypeError == [type |-> "TypeError"]

RecursionError == [type |-> "RecursionError"]

\* `not music`: True of None, of 0, of an empty str, and of an empty tuple
\* or list; a Note is an object without __bool__ or __len__, never falsy.
Falsy(music) ==
    \/ music.type = "None"
    \/ music.type = "int" /\ music.value = 0
    \/ music.type = "str" /\ music.value = <<>>
    \/ music.type \in {"tuple", "list"} /\ music.items = <<>>

\* `for x in music` of a value that is neither a Note, a tuple nor a list:
\* None and an int are not iterable; an empty str has no members; the
\* members of a str are strs of one character, each of which is its own
\* only member, so that the recursion over them ends in RecursionError.
Iterating(music) ==
    IF music.type = "str"
    THEN IF music.value = <<>> THEN None ELSE RecursionError
    ELSE TypeError

\* temper_note(note, edo=edo)
RECURSIVE SumSteps(_, _)
SumSteps(rs, edo) ==
    IF rs = <<>> THEN 0
    ELSE NearestStep(rs[1][1], rs[1][2], edo) + SumSteps(Tail(rs), edo)

temper_note_of_product(note, edo) ==
    LET frequency == evaluate(note.frequency)
    IN  IF frequency[1] = 0 THEN note
        ELSE Note(Power(2, RoundEdoLog2(edo, frequency), edo),
                  note.duration, note.volume)

temper_note_default_volume(note, edo) ==
    LET frequency == evaluate(note.frequency)
        n == IF note.frequency.type = "RatioProduct"
             THEN SumSteps(note.frequency.ratios, edo)
             ELSE RoundEdoLog2(edo, frequency)
    IN  IF frequency[1] = 0 THEN note
        ELSE Note(Power(2, n, edo), note.duration, Fr(<<1, 1>>))

temper_note(note, edo) ==
    LET frequency == evaluate(note.frequency)
        n == IF note.frequency.type = "RatioProduct"
             THEN SumSteps(note.frequency.ratios, edo)
             ELSE RoundEdoLog2(edo, frequency)
    IN  IF frequency[1] = 0 THEN note
        ELSE Note(Power(2, n, edo), note.duration, note.volume)

\* The three functions of a Note that the program maps over Music: the
\* lambda of mult_expr, the lambda of power, and partial(temper_note, edo).
mult_note_appending(multiplier, x) ==
    Note(Mul(x.frequency, RatioProduct(multiplier)), x.duration, x.volume)

mult_note(multiplier, x) ==
    Note(Mul(RatioProduct(multiplier), x.frequency), x.duration, x.volume)

power_note_of_frequency(volume_multiplier, x) ==
    Note(x.frequency, x.duration, Mul(volume_multiplier, x.frequency))

power_note(volume_multiplier, x) ==
    Note(x.frequency, x.duration, Mul(volume_multiplier, x.volume))

Call(f, x) ==
    IF f.fn = "mult_expr" THEN mult_note(f.arg, x)
    ELSE IF f.fn = "power" THEN power_note(f.arg, x)
    ELSE temper_note(x, f.arg)

\* apply_to_notes(music, f): f on a Note, the same container of the mapped
\* members for a tuple and for a list.
RECURSIVE apply_to_notes(_, _)
apply_to_notes(music, f) ==
    IF music.type = "Note" THEN Call(f, music)
    ELSE IF music.type \in {"tuple", "list"}
    THEN [type |-> music.type,
          items |-> [i \in 1..Len(music.items) |-> apply_to_notes(music.items[i], f)]]
    ELSE ValueError(music)

\* temper(music, edo=edo)
temper(music, edo) ==
    IF edo.type = "None" THEN music
    ELSE apply_to_notes(music, [fn |-> "temper_note", arg |-> edo.value])

\* NoteTransformer.mult_expr: children = ratios followed by the music.
RECURSIVE prodRP(_)
prodRP(rps) ==
    IF rps = <<>> THEN RP(<<>>)
    ELSE Mul(prodRP(SubSeq(rps, 1, Len(rps) - 1)), rps[Len(rps)])

mult_expr(ratios, music) ==
    apply_to_notes(music, [fn |-> "mult_expr", arg |-> prodRP(ratios)])

\* NoteTransformer.power: children = the music and the volume multiplier.
power(music, volume_multiplier) ==
    apply_to_notes(music, [fn |-> "power", arg |-> volume_multiplier])

\* NoteTransformer.note and NoteTransformer.chord: each returns a list
\* holding the one Note, or the one tuple of Notes.
note(frequency, duration, volume) ==
    List(<<Note(frequency, duration,
                IF volume.type # "None" THEN volume ELSE Fr(<<1, 1>>))>>)

chord(frequencies, duration, volume) ==
    List(<<Tuple([i \in 1..Len(frequencies) |->
                    Note(frequencies[i], duration,
                         IF volume.type # "None" THEN volume ELSE Fr(<<1, 1>>))])>>)

\* -------------------------------------------------------------- analysis
NumAdd(x, y) == Num(FracAdd(<<x[1], x[2]>>, <<y[1], y[2]>>))

\* Python's max and min of a non-empty sequence of Numbers: the first of
\* the largest (smallest) ones.
RECURSIVE MaxSeq(_)
MaxSeq(xs) ==
    IF Len(xs) = 1 THEN xs[1]
    ELSE LET m == MaxSeq(SubSeq(xs, 1, Len(xs) - 1))
         IN  IF NumLt(m, xs[Len(xs)]) THEN xs[Len(xs)] ELSE m

RECURSIVE MinSeq(_)
MinSeq(xs) ==
    IF Len(xs) = 1 THEN xs[1]
    ELSE LET m == MinSeq(SubSeq(xs, 1, Len(xs) - 1))
         IN  IF NumLt(xs[Len(xs)], m) THEN xs[Len(xs)] ELSE m

RECURSIVE SumSeq(_)
SumSeq(xs) == IF xs = <<>> THEN <<0, 1, 1>> ELSE NumAdd(xs[1], SumSeq(Tail(xs)))

\* total_duration(music)
RECURSIVE total_duration_all_max(_)
total_duration_all_max(music) ==
    IF music.type = "Note" THEN evaluate(music.duration)
    ELSE IF music.items # <<>>
         THEN MaxSeq([i \in 1..Len(music.items) |->
                        total_duration_all_max(music.items[i])])
         ELSE <<0, 1, 1>>

RECURSIVE total_duration(_)
total_duration(music) ==
    IF music.type = "Note" THEN evaluate(music.duration)
    ELSE IF music.type = "tuple"
    THEN IF music.items # <<>>
         THEN MaxSeq([i \in 1..Len(music.items) |-> total_duration(music.items[i])])
         ELSE <<0, 1, 1>>
    ELSE IF music.type = "list"
    THEN IF music.items # <<>>
         THEN SumSeq([i \in 1..Len(music.items) |-> total_duration(music.items[i])])
         ELSE <<0, 1, 1>>
    ELSE ValueError(music)

\* height(music)
RECURSIVE SumInt(_)
SumInt(xs) == IF xs = <<>> THEN 0 ELSE xs[1] + SumInt(Tail(xs))

RECURSIVE MaxInt(_)
MaxInt(xs) ==
    IF Len(xs) = 1 THEN xs[1]
    ELSE LET m == MaxInt(Tail(xs)) IN IF xs[1] >= m THEN xs[1] ELSE m

RECURSIVE height_all_sum(_)
height_all_sum(music) ==
    IF music.type = "Note" THEN 1
    ELSE SumInt([i \in 1..Len(music.items) |-> height_all_sum(music.items[i])])

RECURSIVE height(_)
height(music) ==
    IF Falsy(music) THEN 0
    ELSE IF music.type = "Note" THEN 1
    ELSE IF music.type = "tuple"
    THEN SumInt([i \in 1..Len(music.items) |-> height(music.items[i])])
    ELSE IF music.type = "list"
    THEN MaxInt([i \in 1..Len(music.items) |-> height(music.items[i])])
    ELSE ValueError(music)

\* frequencies_set(music)
RECURSIVE frequencies_set_with_rests(_)
frequencies_set_with_rests(music) ==
    IF music.type = "Note" THEN {evaluate(music.frequency)}
    ELSE UNION {frequencies_set_with_rests(music.items[i]) : i \in 1..Len(music.items)}

RECURSIVE frequencies_set(_)
frequencies_set(music) ==
    IF music.type = "Note"
    THEN LET frequency == evaluate(music.frequency)
         IN  IF frequency[1] # 0 THEN {frequency} ELSE {}
    ELSE IF music.type \in {"tuple", "list"}
    THEN UNION {frequencies_set(music.items[i]) : i \in 1..Len(music.items)}
    ELSE IF Iterating(music) = None THEN {}
    ELSE Iterating(music)

\* sorted(S): the members of a set of Numbers in ascending order.
RECURSIVE sorted(_)
sorted(S) ==
    IF S = {} THEN <<>>
    ELSE LET m == CHOOSE x \in S : \A y \in S : NumLe(x, y)
         IN  <<m>> \o sorted(S \ {m})

\* all_frequencies(music)
all_frequencies(music) ==
    IF music.type \in {"Note", "tuple", "list"} \/ Iterating(music) = None
    THEN sorted(frequencies_set(music))
    ELSE frequencies_set(music)

\* lowest(music)
RECURSIVE lowest(_)
lowest(music) ==
    IF Falsy(music) THEN Inf
    ELSE IF music.type = "Note"
    THEN LET frequency == evaluate(music.frequency)
         IN  IF frequency[1] # 0 THEN frequency ELSE Inf
    ELSE IF music.type \in {"tuple", "list"}
    THEN MinSeq([i \in 1..Len(music.items) |-> lowest(music.items[i])])
    ELSE Iterating(music)

\* ---------------------------------------------------- the range of a float
\* A float holds 2^x for FloatMinExp <= x < FloatMaxExp: 2 ** x raises
\* OverflowError above that range and is 0.0 below it.  Frequencies that
\* large do not fit the Fractions above, so in the specification SpecRange every
\* ratio is a power of two, 2^k, carried by its exponent k: a RatioProduct
\* is the sequence of the exponents of its ratios, and a Number 2^x is x.
FloatMaxExp == 1024

FloatMinExp == -1074

\* Exponents k of ratios 2^k, each of which is a float.
Exponents == {-1000, -600, 0, 600, 1000}

OverflowError == [type |-> "OverflowError"]

RatioProductOfPowers(ks) == [type |-> "RatioProduct", exponents |-> ks]

\* evaluate(quantity): the exact Fraction 2^(k1 + ... + kn) of a
\* RatioProduct; the float 2 ** (m / n) of a Power, m a multiple of n here.
evaluate_power_of_two(quantity) ==
    IF quantity.type = "RatioProduct"
    THEN [type |-> "Fraction", zero |-> FALSE, exponent |-> SumInt(quantity.exponents)]
    ELSE LET x == quantity.exponent_numerator \div quantity.exponent_denominator
         IN  IF x >= FloatMaxExp THEN OverflowError
             ELSE IF x < FloatMinExp THEN [type |-> "float", zero |-> TRUE, exponent |-> 0]
             ELSE [type |-> "float", zero |-> FALSE, exponent |-> x]

\* temper_note(note, edo=edo): math.log2 of the float 2^k is k, and
\* round(edo * k) is edo * k.  The OverflowError of evaluate propagates.
temper_note_power_of_two(x, edo) ==
    LET frequency == evaluate_power_of_two(x.frequency)
    IN  IF frequency.type = "OverflowError" THEN OverflowError
        ELSE IF frequency.zero THEN x
        ELSE LET n == IF x.frequency.type = "RatioProduct"
                      THEN SumInt([i \in 1..Len(x.frequency.exponents) |->
                                      edo * x.frequency.exponents[i]])
                      ELSE edo * frequency.exponent
             IN  Note(Power(2, n, edo), x.duration, x.volume)

\* ------------------------------------------------------------ hex strings
\* A hex string is the sequence of its digits, each 0..15; a bit string is
\* the sequence of its bits.
RECURSIVE HexDigits(_)
HexDigits(n) == IF n < 16 THEN <<n>> ELSE HexDigits(n \div 16) \o <<n % 16>>

RECURSIVE Bits(_)
Bits(n) == IF n < 2 THEN <<n>> ELSE Bits(n \div 2) \o <<n % 2>>

Zeros(k) == [i \in 1..k |-> 0]

\* f"{n:0{width}X}" and f"{n:0{width}b}" for n >= 0: at least width digits.
FormatHex(n, width) ==
    Zeros(IF Len(HexDigits(n)) < width THEN width - Len(HexDigits(n)) ELSE 0)
        \o HexDigits(n)

FormatBits(n, width) ==
    Zeros(IF Len(Bits(n)) < width THEN width - Len(Bits(n)) ELSE 0) \o Bits(n)

\* int(b, base=2)
RECURSIVE IntOfBits(_)
IntOfBits(b) ==
    IF b = <<>> THEN 0 ELSE 2 * IntOfBits(SubSeq(b, 1, Len(b) - 1)) + b[Len(b)]

\* "".join(strings)
RECURSIVE Join(_)
Join(strings) == IF strings = <<>> THEN <<>> ELSE strings[1] \o Join(Tail(strings))

\* variable_length_quantity(n)
variable_length_quantity_always_flagged(n) ==
    LET n_bytes == (Len(Bits(n)) + 6) \div 7
        padded_bit_string == FormatBits(n, n_bytes * 7)
    IN  Join([i \in 1..n_bytes |->
                FormatHex(IntOfBits(<<1>> \o SubSeq(padded_bit_string, 7 * i - 6, 7 * i)), 2)])

variable_length_quantity(n) ==
    LET bit_string == Bits(n)
        n_bytes == (Len(bit_string) + 6) \div 7
        padded_bit_string == FormatBits(n, n_bytes * 7)
        byte_strings == [i \in 1..n_bytes |->
                            <<IF i - 1 < n_bytes - 1 THEN 1 ELSE 0>>
                                \o SubSeq(padded_bit_string, 7 * i - 6, 7 * i)]
        hex_bytes == [i \in 1..n_bytes |-> FormatHex(IntOfBits(byte_strings[i]), 2)]
    IN  Join(hex_bytes)

\* ------------------------------------------------------------- MidiNote
DIVISION == 6720

PITCH_BEND_MAX == 16383

PITCH_BEND_CENTER == 8192

\* An exception that ends the call: a failed assert, a division by zero, an
\* index out of range.
AssertionError == [type |-> "AssertionError"]

\* assert ..., "Not enough channels"
NotEnoughChannels == [type |-> "AssertionError", message |-> "Not enough channels"]

ZeroDivisionError == [type |-> "ZeroDivisionError"]

IndexError == [type |-> "IndexError"]

Raised(x) == x.type \in {"AssertionError", "ZeroDivisionError", "IndexError"}

\* The first exception raised while the results xs were computed in order.
FirstRaised(xs) == xs[CHOOSE i \in 1..Len(xs) :
                        Raised(xs[i]) /\ \A j \in 1..(i - 1) : ~Raised(xs[j])]

AnyRaised(xs) == \E i \in 1..Len(xs) : Raised(xs[i])

\* A str that holds hex digits.
Str(hex) == [type |-> "str", value |-> hex]

MidiNoteUnchecked(pitch, bend, ticks, velocity) ==
    [type |-> "MidiNote", pitch |-> pitch, bend |-> bend, ticks |-> ticks,
     velocity |-> velocity]

\* MidiNote(pitch, bend, ticks, velocity), with the asserts of __post_init__.
MidiNote(pitch, bend, ticks, velocity) ==
    IF ~(0 <= pitch /\ pitch <= 127) THEN AssertionError
    ELSE IF bend.type # "None" /\ ~(0 <= bend.value /\ bend.value <= Pow(2, 14) - 1)
    THEN AssertionError
    ELSE IF ~(0 <= velocity /\ velocity <= 127) THEN AssertionError
    ELSE [type |-> "MidiNote", pitch |-> pitch, bend |-> bend, ticks |-> ticks,
          velocity |-> velocity]

\* 12 * math.log2(x) in units of 1/100000 semitone, from the exponent for a
\* power of two or a root of one, and for the other frequencies used here
\* from their logarithms.
TwelveLog2(x) ==
    IF IsPowerOfTwo(x) THEN (1200000 * Log2Exact(x[1], x[2])) \div x[3]
    ELSE CASE <<x[1], x[2]>> = <<3, 2>> -> 701955
           [] <<x[1], x[2]>> = <<5, 4>> -> 386314
           [] <<x[1], x[2]>> = <<3, 4>> -> -498045

\* 12 * math.log2(f0 / MIDDLE_C_FREQUENCY), in the same units: middle C is 9
\* semitones below 440 Hz.
SemitonesFromMiddleC(f0) ==
    CASE f0 = 440 -> 900000
      [] f0 = 220 -> -300000

\* min(a, b)
Min(a, b) == IF a <= b THEN a ELSE b

\* Note.to_midi(f0=f0, pitch_bend_range=pitch_bend_range)
midi_ticks_truncated(duration) ==
    LET ticks == FracMul(<<duration[1], duration[2]>>, <<DIVISION, 1>>)
    IN  Some(ticks[1] \div ticks[2])

\* ticks = duration * constants.DIVISION; assert int(ticks) == ticks
midi_ticks(duration) ==
    LET ticks == FracMul(<<duration[1], duration[2]>>, <<DIVISION, 1>>)
    IN  IF ticks[2] # 1 THEN AssertionError ELSE Some(ticks[1])

to_midi(x, f0, pitch_bend_range) ==
    LET ticks == midi_ticks(evaluate(x.duration))
        frequency == evaluate(x.frequency)
        exact_semitones == TwelveLog2(frequency) + SemitonesFromMiddleC(f0)
        integer_semitones == RoundHalfEven(exact_semitones, 100000)
        remainder == exact_semitones - 100000 * integer_semitones
        pitch == 60 + integer_semitones
        bend == PITCH_BEND_CENTER
                  + RoundHalfEven(remainder * (PITCH_BEND_MAX - PITCH_BEND_CENTER),
                                  pitch_bend_range * 100000)
        volume == evaluate(x.volume)
        velocity == Min(RoundHalfEven(volume[1] * 64, volume[2]), 127)
    IN  IF Raised(ticks) THEN ticks
        ELSE IF frequency[1] = 0
        THEN MidiNote(0, Some(PITCH_BEND_CENTER), ticks.value, 0)
        ELSE IF pitch_bend_range = 0 THEN ZeroDivisionError
        ELSE MidiNote(pitch, Some(bend), ticks.value, velocity)

\* fourteen_bit(n)
fourteen_bit(n) ==
    LET bit_string == FormatBits(n, 16)
        least == SubSeq(bit_string, Len(bit_string) - 6, Len(bit_string))
        most == SubSeq(bit_string, Len(bit_string) - 13, Len(bit_string) - 7)
        new_bit_string == <<0>> \o least \o <<0>> \o most
    IN  FormatHex(IntOfBits(new_bit_string), 4)

\* chord_to_midi(notes, f0=f0, channels=channels,
\* pitch_bend_range=pitch_bend_range), from the asserts on: zip stops at the
\* shorter of the notes and the channels.
ChordEventsOffsFirst(midi_notes, channels) ==
    LET pitch_bends == [i \in 1..Len(midi_notes) |->
            <<0, 0, 14>> \o HexDigits(channels[i]) \o fourteen_bit(midi_notes[i].bend.value)]
        note_ons == [i \in 1..Len(midi_notes) |->
            <<0, 0, 9>> \o HexDigits(channels[i]) \o FormatHex(midi_notes[i].pitch, 2)
                \o FormatHex(midi_notes[i].velocity, 2)]
        note_offs == [i \in 1..Len(midi_notes) |->
            (IF channels[i] = channels[1]
             THEN variable_length_quantity(midi_notes[1].ticks) ELSE <<0, 0>>)
                \o <<8>> \o HexDigits(channels[i]) \o FormatHex(midi_notes[i].pitch, 2)
                \o <<0, 0>>]
    IN  IF AnyRaised(midi_notes) THEN FirstRaised(midi_notes)
        ELSE IF Cardinality({midi_notes[i].ticks : i \in 1..Len(midi_notes)}) # 1
        THEN AssertionError
        ELSE IF ~(Len(midi_notes) <= Len(channels)) THEN AssertionError
        ELSE Str(Join(pitch_bends \o note_offs \o note_ons))

ChordEvents(midi_notes, channels) ==
    LET pitch_bends == [i \in 1..Len(midi_notes) |->
            <<0, 0, 14>> \o HexDigits(channels[i]) \o fourteen_bit(midi_notes[i].bend.value)]
        note_ons == [i \in 1..Len(midi_notes) |->
            <<0, 0, 9>> \o HexDigits(channels[i]) \o FormatHex(midi_notes[i].pitch, 2)
                \o FormatHex(midi_notes[i].velocity, 2)]
        note_offs == [i \in 1..Len(midi_notes) |->
            (IF channels[i] = channels[1]
             THEN variable_length_quantity(midi_notes[1].ticks) ELSE <<0, 0>>)
                \o <<8>> \o HexDigits(channels[i]) \o FormatHex(midi_notes[i].pitch, 2)
                \o <<0, 0>>]
    IN  IF AnyRaised(midi_notes) THEN FirstRaised(midi_notes)
        ELSE IF Cardinality({midi_notes[i].ticks : i \in 1..Len(midi_notes)}) # 1
        THEN AssertionError
        ELSE IF ~(Len(midi_notes) <= Len(channels)) THEN AssertionError
        ELSE Str(Join(pitch_bends \o note_ons \o note_offs))

\* A Note alone is a chord of one; every Note is converted first.
NotesOf(notes) == IF notes.type # "tuple" THEN <<notes>> ELSE notes.items

chord_to_midi(notes, f0, channels, pitch_bend_range) ==
    ChordEvents([i \in 1..Len(NotesOf(notes)) |->
                    to_midi(NotesOf(notes)[i], f0, pitch_bend_range)],
                channels)

\* ------------------------------------------------------------ MIDI tracks
END_OF_TRACK == <<0, 0, 15, 15, 2, 15, 0, 0>>

\* "MTrk".encode().hex() and "MThd".encode().hex()
MTrk == <<4, 13, 5, 4, 7, 2, 6, 11>>

MThd == <<4, 13, 5, 4, 6, 8, 6, 4>>

\* track_header(track_hex)
track_header_counting_digits(track_hex) ==
    IF Len(track_hex) % 2 # 0 THEN AssertionError
    ELSE Str(MTrk \o FormatHex(Len(track_hex), 8))

track_header(track_hex) ==
    LET n_bytes == Len(track_hex) \div 2
        remainder == Len(track_hex) % 2
    IN  IF remainder # 0 THEN AssertionError
        ELSE Str(MTrk \o FormatHex(n_bytes, 8))

\* header + body, or the exception track_header raised.
WithHeader(body) ==
    IF Raised(track_header(body)) THEN track_header(body)
    ELSE Str(track_header(body).value \o body)

\* tempo_track(t0), t0 a Fraction of a second.
tempo_track(t0) ==
    LET microseconds_per_beat == RoundHalfEven(t0[1] * 1000000, t0[2])
        body == <<0, 0, 15, 15, 5, 1, 0, 3>> \o FormatHex(microseconds_per_beat, 6)
                    \o END_OF_TRACK
    IN  WithHeader(body)

\* set_program(program, channels)
set_program(program, channels) ==
    Join([i \in 1..Len(channels) |->
            <<0, 0, 12>> \o HexDigits(channels[i]) \o FormatHex(program - 1, 2)])

\* midi_track(music, f0=f0, channels=channels, program=program,
\* pitch_bend_range=pitch_bend_range), music a Part: the events of the
\* chords after the program changes, with the header and the end of track.
TrackOf(program_change, chords) ==
    IF AnyRaised(chords) THEN FirstRaised(chords)
    ELSE WithHeader(program_change
                      \o Join([i \in 1..Len(chords) |-> chords[i].value])
                      \o END_OF_TRACK)

midi_track(a_part, f0, channels, program, pitch_bend_range) ==
    TrackOf(IF program.type # "None" THEN set_program(program.value, channels)
            ELSE <<>>,
            [i \in 1..Len(a_part.items) |->
                chord_to_midi(a_part.items[i], f0, channels, pitch_bend_range)])

\* all_channels = [i for i in range(16) if i not in {0, 9}]
AllChannelsOfRange == [i \in 1..16 |-> i - 1]

AllChannels == <<1, 2, 3, 4, 5, 6, 7, 8, 10, 11, 12, 13, 14, 15>>

\* all_channels[lowest_index : lowest_index + n_channels]: a slice stops at
\* the end of the list.
SliceWrapping(xs, from, to) ==
    [i \in 1..(to - from) |-> xs[((from + i - 1) % Len(xs)) + 1]]

Slice(xs, from, to) == SubSeq(xs, from + 1, Min(to, Len(xs)))

\* programs[n] if n < len(programs) else programs[-1]; n counts from 0.
ProgramOf(programs, n) ==
    IF programs.type = "None" THEN None
    ELSE IF n < Len(programs.items) THEN programs.items[n + 1]
    ELSE IF programs.items = <<>> THEN IndexError
    ELSE programs.items[Len(programs.items)]

\* lowest_index when the loop of part_midi_tracks comes to part n (n counts
\* from 0): the heights of the parts before it, and the channels of part n.
LowestIndex(parts, n) == SumInt([j \in 1..n |-> height(parts[j])])

ChannelsOf(parts, n) ==
    Slice(AllChannels, LowestIndex(parts, n),
          LowestIndex(parts, n) + height(parts[n + 1]))

\* What the loops over the parts return: the tracks and the channels of the
\* parts, or the first exception raised.
TracksAndChannels(midi_tracks, part_channels) ==
    IF AnyRaised(midi_tracks) THEN FirstRaised(midi_tracks)
    ELSE [type |-> "tuple",
          midi_tracks |-> [n \in 1..Len(midi_tracks) |-> midi_tracks[n].value],
          part_channels |-> part_channels]

\* part_midi_tracks(music, f0, programs, pitch_bend_range)
part_midi_tracks(music, f0, programs, pitch_bend_range) ==
    TracksAndChannels(
        [n \in 1..Len(music.items) |->
            IF Raised(ProgramOf(programs, n - 1)) THEN ProgramOf(programs, n - 1)
            ELSE IF ~(LowestIndex(music.items, n - 1) <= Len(AllChannels) - 1)
            THEN NotEnoughChannels
            ELSE midi_track(music.items[n], f0, ChannelsOf(music.items, n - 1),
                            ProgramOf(programs, n - 1), pitch_bend_range)],
        [n \in 1..Len(music.items) |-> ChannelsOf(music.items, n - 1)])

\* The frequency map of the tuning backend: every distinct sounding
\* frequency of the Piece gets a MIDI note number of its own, here its place
\* among all_frequencies(music), counted from 0.
frequency_map_of(music) ==
    [f \in frequencies_set(music) |->
        (CHOOSE i \in 1..Len(all_frequencies(music)) : all_frequencies(music)[i] = f) - 1]

\* scala_midi_note(note, frequency_map): the mapped note number as pitch, no
\* bend; a rest has pitch 0 and velocity 0.
scala_midi_note(x, frequency_map) ==
    LET ticks == midi_ticks(evaluate(x.duration))
        frequency == evaluate(x.frequency)
        volume == evaluate(x.volume)
        velocity == Min(RoundHalfEven(volume[1] * 64, volume[2]), 127)
    IN  IF Raised(ticks) THEN ticks
        ELSE IF frequency[1] = 0 THEN MidiNote(0, None, ticks.value, 0)
        ELSE MidiNote(frequency_map[frequency], None, ticks.value, velocity)

\* chord_to_scala_midi(notes, frequency_map, channel), from the asserts on.
ScalaChordEventsAllTimed(midi_notes, channel) ==
    LET note_ons == [i \in 1..Len(midi_notes) |->
            <<0, 0, 9>> \o HexDigits(channel) \o FormatHex(midi_notes[i].pitch, 2)
                \o FormatHex(midi_notes[i].velocity, 2)]
        note_offs == [i \in 1..Len(midi_notes) |->
            variable_length_quantity(midi_notes[1].ticks)
                \o <<8>> \o HexDigits(channel) \o FormatHex(midi_notes[i].pitch, 2)
                \o <<0, 0>>]
    IN  IF AnyRaised(midi_notes) THEN FirstRaised(midi_notes)
        ELSE IF Cardinality({midi_notes[i].ticks : i \in 1..Len(midi_notes)}) # 1
        THEN AssertionError
        ELSE Str(Join(note_ons \o note_offs))

ScalaChordEvents(midi_notes, channel) ==
    LET note_ons == [i \in 1..Len(midi_notes) |->
            <<0, 0, 9>> \o HexDigits(channel) \o FormatHex(midi_notes[i].pitch, 2)
                \o FormatHex(midi_notes[i].velocity, 2)]
        note_offs == [i \in 1..Len(midi_notes) |->
            (IF i = 1 THEN variable_length_quantity(midi_notes[1].ticks)
             ELSE <<0, 0>>)
                \o <<8>> \o HexDigits(channel) \o FormatHex(midi_notes[i].pitch, 2)
                \o <<0, 0>>]
    IN  IF AnyRaised(midi_notes) THEN FirstRaised(midi_notes)
        ELSE IF Cardinality({midi_notes[i].ticks : i \in 1..Len(midi_notes)}) # 1
        THEN AssertionError
        ELSE Str(Join(note_ons \o note_offs))

chord_to_scala_midi(notes, frequency_map, channel) ==
    ScalaChordEvents([i \in 1..Len(NotesOf(notes)) |->
                         scala_midi_note(NotesOf(notes)[i], frequency_map)],
                     channel)

\* part_scala_midi_tracks(music, frequency_map): part i, counted from 0, is
\* sent on channel list(range(16))[i].
part_scala_midi_tracks(music, frequency_map) ==
    TracksAndChannels(
        [i \in 1..Len(music.items) |->
            IF i - 1 > 15 THEN IndexError
            ELSE TrackOf(<<>>,
                         [k \in 1..Len(music.items[i].items) |->
                             chord_to_scala_midi(music.items[i].items[k],
                                                 frequency_map, i - 1)])],
        [i \in 1..Len(music.items) |-> <<i - 1>>])

\* music_to_midi_file(music, config=config): the hex of the bytes written,
\* with the tracks they are made of and the channels of the parts.
ProgramsOf(config) ==
    IF config.parts.type # "None"
    THEN List([i \in 1..Len(config.parts.items) |-> config.parts.items[i].program])
    ELSE None

FileOf(part_tracks, tempo) ==
    LET all_tracks == <<tempo.value>> \o part_tracks.midi_tracks
        file_header == MThd \o <<0, 0, 0, 0, 0, 0, 0, 6>> \o <<0, 0, 0, 1>>
                         \o FormatHex(Len(all_tracks), 4) \o FormatHex(DIVISION, 4)
    IN  IF Raised(part_tracks) THEN part_tracks
        ELSE IF Raised(tempo) THEN tempo
        ELSE [type |-> "file", hex |-> file_header \o Join(all_tracks),
              file_header |-> file_header, all_tracks |-> all_tracks,
              part_channels |-> part_tracks.part_channels]

music_to_midi_file(music, config) ==
    FileOf(IF config.tuning_method = "SCALA"
           THEN part_scala_midi_tracks(music, frequency_map_of(music))
           ELSE part_midi_tracks(music, config.f, ProgramsOf(config),
                                 config.pitch_bend_range),
           tempo_track(config.t))

\* play_music(music, config=config): fluidsynth only works with pitch bend
\* retuning, so the tuning_method of the caller's Config is overwritten; the
\* midi file is written for fluidsynth and ZynAddSubFX, not for Surge XT.
\* The result is the Config as the call leaves it and the file, if any; the
\* synth is then run on that file.
play_music(music, config) ==
    LET tuned == IF config.synth = "FLUIDSYNTH"
                 THEN [config EXCEPT !.tuning_method = "PITCH_BEND"]
                 ELSE config
    IN  [config |-> tuned,
         file |-> IF tuned.synth \in {"ZYNADDSUBFX", "FLUIDSYNTH"}
                  THEN music_to_midi_file(music, tuned)
                  ELSE None]

\* ----------------------------------------------------- lilypond durations
\* DURATIONS: the durations of the basic lilypond notes, in beats.
DURATIONS ==
    <<<<4, 1>>, <<2, 1>>, <<1, 1>>, <<1, 2>>, <<1, 4>>, <<1, 8>>, <<1, 16>>, <<1, 32>>>>

\* _factorize(n): the largest power of two n contains, and the other factor.
RECURSIVE _factorize(_)
_factorize(n) ==
    IF n % 2 = 0
    THEN <<2 * _factorize(n \div 2)[1], _factorize(n \div 2)[2]>>
    ELSE <<1, n>>

\* floor(log2(n)): math.log2 returns a float, whose floor is that of the
\* logarithm for every n below 2^48.
RECURSIVE ceil_log2(_)
ceil_log2(n) == IF n <= 1 THEN 0 ELSE 1 + ceil_log2((n + 1) \div 2)

RECURSIVE floor_log2(_)
floor_log2(n) == IF n < 2 THEN 0 ELSE 1 + floor_log2(n \div 2)

\* The loop "for d in DURATIONS: coeffs[d], to_divide = divmod(to_divide, d)"
\* from DURATIONS[i] on, with the parts of the notes to tie: coeffs[d] times
\* the lilypond name 4 / d of a note lasting d beats.
RECURSIVE DivideFrom(_, _)
DivideFrom(to_divide, i) ==
    IF i > Len(DURATIONS)
    THEN [parts |-> <<>>, to_divide |-> to_divide]
    ELSE LET d == DURATIONS[i]
             coeff == (to_divide[1] * d[2]) \div (to_divide[2] * d[1])
             rest == Fraction(to_divide[1] * d[2] - coeff * d[1] * to_divide[2],
                              to_divide[2] * d[2])
             name == Fraction(4 * d[2], d[1])[1]
             more == DivideFrom(rest, i + 1)
         IN  [parts |-> [j \in 1..coeff |-> name] \o more.parts,
              to_divide |-> more.to_divide]

\* The template lilypond_duration returns: the names of the notes tied
\* together, "{0}4~{1}{0}8" being <<4, 8>>, and the tuplet "\tuplet n/m {{ }}"
\* around them, if any.
Tuplet(n, m) == [type |-> "tuplet", n |-> n, m |-> m]

Template(parts, tuplet) == [type |-> "str", parts |-> parts, tuplet |-> tuplet]

\* lilypond_duration(note)
lilypond_duration(x) ==
    LET duration == evaluate(x.duration)
        power_of_two == _factorize(duration[2])[1]
        odd_factor == _factorize(duration[2])[2]
        rescale == Pow(2, floor_log2(odd_factor))
        to_divide == Fraction(duration[1], power_of_two * rescale)
        divided == DivideFrom(to_divide, 1)
    IN  IF ~(duration[1] > 0) THEN AssertionError
        ELSE IF divided.to_divide # <<0, 1>> THEN AssertionError
        ELSE IF odd_factor = 1 THEN Template(divided.parts, None)
        ELSE Template(divided.parts, Tuplet(odd_factor, rescale))

\* Denominators beyond 2^48 do not fit the Fractions above: the duration
\* 2^a / (2^k - 1) is carried by the exponents a and k, k >= 2, and the
\* powers of two computed from it by their exponents.  2^k - 1 is odd, and
\* it is a float for k <= 53.
PowerDuration(a, k) ==
    [type |-> "Fraction", numerator_exponent |-> a, denominator_exponent |-> k]

\* floor(log2(2^k - 1)): the logarithm is k - 1.44 * 2^-k, and from k = 49 on
\* the float nearest to it is k.
LastLog2Below == 48

floor_log2_of_float(k) == IF k <= LastLog2Below THEN k - 1 ELSE k

\* lilypond_duration(note) for such a duration: to_divide is 2^(a - r) for
\* rescale = 2^r, which is 2^(a - r - 2) notes of 4 beats, or one note of
\* 2^(a - r) beats down to 1/32, or nothing of DURATIONS.
lilypond_duration_of_powers(x) ==
    LET a == x.duration.numerator_exponent
        k == x.duration.denominator_exponent
        rescale_exponent == floor_log2_of_float(k)
        to_divide_exponent == a - rescale_exponent
        parts == IF to_divide_exponent >= 2
                 THEN [j \in 1..Pow(2, to_divide_exponent - 2) |-> 1]
                 ELSE <<Pow(2, 2 - to_divide_exponent)>>
    IN  IF to_divide_exponent < -5 THEN AssertionError
        ELSE Template(parts, [type |-> "tuplet", n_exponent |-> k,
                              m_exponent |-> rescale_exponent])

\* ------------------------------------------------------- lilypond chords
\* x.cents < y.cents.  The cents of a rest are nan, and every comparison
\* with nan is False; those of another Note are 1200 * log2 of its
\* frequency rounded to 3 places, in the order of the frequencies.
CentsLt(x, y) ==
    LET fx == evaluate(x.frequency)
        fy == evaluate(y.frequency)
    IN  fx[1] # 0 /\ fy[1] # 0 /\ NumLt(fx, fy)

Reverse(xs) == [i \in 1..Len(xs) |-> xs[Len(xs) + 1 - i]]

\* sorted(chord, key=lambda x: x.cents), as list.sort orders fewer than 64
\* items: the run the list starts with, ascending or strictly descending
\* (and then reversed), and every later item inserted into it at the place
\* a binary search finds.
RECURSIVE RunLength(_, _, _)
RunLength(xs, descending, n) ==
    IF n < Len(xs) /\ (CentsLt(xs[n + 1], xs[n]) <=> descending)
    THEN RunLength(xs, descending, n + 1)
    ELSE n

RECURSIVE InsertAt(_, _, _, _)
InsertAt(run, pivot, l, r) ==
    IF l >= r THEN l
    ELSE LET p == l + ((r - l) \div 2)
         IN  IF CentsLt(pivot, run[p]) THEN InsertAt(run, pivot, l, p)
             ELSE InsertAt(run, pivot, p + 1, r)

RECURSIVE BinarySort(_, _)
BinarySort(run, rest) ==
    IF rest = <<>> THEN run
    ELSE LET l == InsertAt(run, rest[1], 1, Len(run) + 1)
         IN  BinarySort(SubSeq(run, 1, l - 1) \o <<rest[1]>> \o SubSeq(run, l, Len(run)),
                        Tail(rest))

sorted_by_cents(xs) ==
    IF Len(xs) < 2 THEN xs
    ELSE LET descending == CentsLt(xs[2], xs[1])
             n == RunLength(xs, descending, 2)
         IN  BinarySort(IF descending THEN Reverse(SubSeq(xs, 1, n)) ELSE SubSeq(xs, 1, n),
                        SubSeq(xs, n + 1, Len(xs)))

\* lilypond_pitch(note, f0): "r" and RatioProduct(Fraction(0)) for a rest,
\* the Note's own frequency otherwise.  The name and the cent deviation of a
\* sounding Note, floats rounded, are not carried.
lilypond_pitch(x) ==
    IF evaluate(x.frequency)[1] = 0
    THEN [note_name |-> "r", frequency |-> RP(<<Fraction(0, 1)>>)]
    ELSE [note_name |-> "name", frequency |-> x.frequency]

\* str(Fraction): "n/d", or "n" for a whole number.  The str is carried as
\* the numbers written in it.
FractionStr(f) == Str(IF f[2] = 1 THEN <<f[1]>> ELSE <<f[1], f[2]>>)

\* _count_leading_shared(parts): zip stops at the shortest tuple.
ShortestLen(parts) ==
    IF parts = <<>> THEN 0
    ELSE CHOOSE n \in {Len(parts[i]) : i \in 1..Len(parts)} :
            \A i \in 1..Len(parts) : n <= Len(parts[i])

_count_leading_shared(parts) ==
    LET n == ShortestLen(parts)
        shared == [k \in 1..n |-> Cardinality({parts[i][k] : i \in 1..Len(parts)}) = 1]
    IN  IF \E k \in 1..n : ~shared[k]
        THEN (CHOOSE k \in 1..n : ~shared[k] /\ \A j \in 1..(k - 1) : shared[j]) - 1
        ELSE n

\* The ratios annotation of lilypond_chord: $(ratios "base" "freq" ...), and
\* "" when a frequency is no RatioProduct.
ChordRatios(frequencies) ==
    IF \A i \in 1..Len(frequencies) : frequencies[i].type = "RatioProduct"
    THEN LET parts == [i \in 1..Len(frequencies) |-> frequencies[i].ratios]
             common == _count_leading_shared(parts)
         IN  [type |-> "str",
              base |-> FractionStr(prod(SubSeq(parts[1], 1, common))),
              freqs |-> [i \in 1..Len(parts) |->
                           FractionStr(prod(SubSeq(parts[i], common + 1,
                                                   Len(parts[i]))))]]
    ELSE Str(<<>>)

\* lilypond_chord(chord, f0): chord[0] of an empty chord raises IndexError.
ChordText(template, pitches) ==
    IF Raised(template) THEN template
    ELSE [type |-> "str", template |-> template,
          note_names |-> [i \in 1..Len(pitches) |-> pitches[i].note_name],
          ratios |-> ChordRatios([i \in 1..Len(pitches) |-> pitches[i].frequency])]

lilypond_chord(notes) ==
    IF notes.items = <<>> THEN IndexError
    ELSE ChordText(lilypond_duration(notes.items[1]),
                   [i \in 1..Len(notes.items) |->
                       lilypond_pitch(sorted_by_cents(notes.items)[i])])

\* ------------------------------------------------------------ the state
VARIABLES
    music,     \* the Piece the transformer has built and the pipeline holds
    edo,       \* the edo the Piece was tempered with, None before tempering
    op,        \* the last operation on the Piece and its arguments
    nops,      \* the number of multiply operators applied to the Piece
    operands,  \* the operands a, b, c of the RatioProduct operators
    answer     \* what the last RatioProduct operator returned

vars == <<music, edo, op, nops, operands, answer>>

\* ---------------------------------------------------------- input pools
Ratio(x, y) == RP(<<Fraction(x, y)>>)

\* The notes "f:d" a source text is made of; frequency 0 is a rest.
NoteInputs ==
    {<<f, d, None>> : f \in {Ratio(0, 1), Ratio(3, 2)},
                      d \in {Ratio(1, 2), Ratio(1, 1)}}

\* The chords "<f1 f2 ...>:d".
ChordInputs ==
    {<<<<>>, Ratio(1, 1), None>>,
     <<<<Ratio(1, 1), Ratio(3, 2)>>, Ratio(1, 1), None>>,
     <<<<Ratio(3, 2), Ratio(0, 1), Ratio(3, 4)>>, Ratio(1, 2), None>>,
     <<<<Ratio(3, 2), Ratio(0, 1), Ratio(3, 4)>>, Ratio(1, 1), None>>}

\* The ratio lists of a frequency-multiply operator.
Multipliers == {<<Ratio(3, 2)>>, <<Ratio(0, 1)>>, <<Ratio(2, 3), Ratio(3, 2)>>}

VolumeMultipliers == {Ratio(2, 1)}

Edos == 1..MaxEdo

\* ---------------------------------------------------------------- shape
RECURSIVE notes_of(_)
notes_of(m) ==
    IF m.type = "Note" THEN <<m>>
    ELSE IF m.items = <<>> THEN <<>>
    ELSE notes_of(m.items[1]) \o
         notes_of([type |-> m.type, items |-> Tail(m.items)])

LastPart == music.items[Len(music.items)]

WithLastPart(p) == Tuple([music.items EXCEPT ![Len(music.items)] = p])

\* NoteTransformer.part: the children's lists chained into one list.
RECURSIVE part(_)
part(children) ==
    IF children = <<>> THEN List(<<>>)
    ELSE List(children[1].items \o part(Tail(children)).items)

\* NoteTransformer.music: the tuple of the parts.
music_of(children) == Tuple(children)

HasPower(m) == \E i \in 1..Len(notes_of(m)) : notes_of(m)[i].frequency.type = "Power"

Events == SumInt([i \in 1..Len(music.items) |-> Len(music.items[i].items)])

\* ------------------------------------------------------ Piece operations
NoOp == [name |-> "none"]

\* A note "f:d" or "f:d:v" is parsed and joins the part being read.
NoteAct(f, d, v) ==
    /\ edo.type = "None"
    /\ Events < MaxEvents
    /\ op' = [name |-> "note"]
    /\ music' = WithLastPart(part(<<LastPart, note(f, d, v)>>))
    /\ UNCHANGED <<edo, nops, operands, answer>>

\* A chord "<f1 f2 ...>:d" or "<...>:d:v" is parsed and joins the part.
ChordAct(fs, d, v) ==
    /\ edo.type = "None"
    /\ Events < MaxEvents
    /\ op' = [name |-> "chord"]
    /\ music' = WithLastPart(part(<<LastPart, chord(fs, d, v)>>))
    /\ UNCHANGED <<edo, nops, operands, answer>>

\* A ";" ends the part being read and starts the next one.
Semicolon ==
    /\ edo.type = "None"
    /\ Len(music.items) < MaxParts
    /\ op' = [name |-> "music"]
    /\ music' = music_of(Append(music.items, part(<<>>)))
    /\ UNCHANGED <<edo, nops, operands, answer>>

\* "m*(...)" around the part being read, or mult_expr on the whole Piece.
\* RatioProduct(Power) raises ValueError: nothing is returned then.
MultExpr(ratios, whole) ==
    /\ nops < MaxOps
    /\ LET target == IF whole THEN music ELSE LastPart IN
        /\ ~HasPower(target)
        /\ op' = [name |-> "mult_expr", ratios |-> ratios, whole |-> whole]
        /\ music' = IF whole THEN mult_expr(ratios, target)
                    ELSE WithLastPart(mult_expr(ratios, target))
    /\ nops' = nops + 1
    /\ UNCHANGED <<edo, operands, answer>>

\* "(...)**v" around the part being read, or power on the whole Piece.
PowerAct(volume_multiplier, whole) ==
    /\ nops < MaxOps
    /\ LET target == IF whole THEN music ELSE LastPart IN
        /\ op' = [name |-> "power", volume_multiplier |-> volume_multiplier,
                  whole |-> whole]
        /\ music' = IF whole THEN power(target, volume_multiplier)
                    ELSE WithLastPart(power(target, volume_multiplier))
    /\ nops' = nops + 1
    /\ UNCHANGED <<edo, operands, answer>>

\* temper(music, edo=e).  A Piece is tempered again only with the edo it
\* was tempered with.
Temper(e) ==
    /\ e.type = "None" \/ edo.type = "None" \/ edo = e
    /\ op' = [name |-> "temper", edo |-> e, again |-> edo.type # "None"]
    /\ music' = temper(music, e)
    /\ edo' = IF e.type = "None" THEN edo ELSE e
    /\ UNCHANGED <<nops, operands, answer>>

\* ---------------------------------------------------------- Spec: a parse
\* The transformer reads a source text event by event; the Piece is then
\* tempered.
InitAlgebra ==
    /\ operands = <<RP(<<>>), RP(<<>>), RP(<<>>)>>
    /\ answer = NoOp

Init ==
    /\ music = music_of(<<part(<<>>)>>)
    /\ edo = None
    /\ op = NoOp
    /\ nops = 0
    /\ InitAlgebra

Next ==
    \/ \E n \in NoteInputs : NoteAct(n[1], n[2], n[3])
    \/ \E c \in ChordInputs : ChordAct(c[1], c[2], c[3])
    \/ Semicolon
    \/ \E e \in {None} \cup {Some(n) : n \in Edos} : Temper(e)

Spec == Init /\ [][Next]_vars

\* ------------------------------------------- SpecOperators: the pipeline
\* Pieces as parse returns them, and one built from Notes directly as the
\* tests do; the multiply operators and temper are applied to them.
ExamplePieces ==
    { music_of(<<part(<<>>)>>),
      \* "<1 3/2>:1 0:1/2"
      music_of(<<part(<<chord(<<Ratio(1, 1), Ratio(3, 2)>>, Ratio(1, 1), None),
                        note(Ratio(0, 1), Ratio(1, 2), None)>>)>>),
      \* "3/4:1:1/2; <3/2 0 1>:1/2:1/2;"
      music_of(<<part(<<note(Ratio(3, 4), Ratio(1, 1), Ratio(1, 2))>>),
                 part(<<chord(<<Ratio(3, 2), Ratio(0, 1), Ratio(1, 1)>>,
                              Ratio(1, 2), Ratio(1, 2))>>),
                 part(<<>>)>>),
      \* "<>:1 3/2*3/2:1/2"
      music_of(<<part(<<chord(<<>>, Ratio(1, 1), None),
                        note(Mul(Ratio(3, 2), Ratio(3, 2)), Ratio(1, 2), None)>>)>>),
      \* ([Note(frequency=Fraction(3, 2), duration=Fraction(1, 1))],)
      Tuple(<<List(<<Note(Fr(<<3, 2>>), Fr(<<1, 1>>), Fr(<<1, 1>>))>>)>>) }

InitOperators ==
    /\ music \in ExamplePieces
    /\ edo = None
    /\ op = NoOp
    /\ nops = 0
    /\ InitAlgebra

NextOperators ==
    \/ \E m \in Multipliers, whole \in BOOLEAN : MultExpr(m, whole)
    \/ \E vm \in VolumeMultipliers, whole \in BOOLEAN : PowerAct(vm, whole)
    \/ \E e \in {None} \cup {Some(n) : n \in Edos} : Temper(e)

SpecOperators == InitOperators /\ [][NextOperators]_vars

\* ------------------------------------- SpecAlgebra: RatioProduct operators
AlgebraRatios == {<<2, 3>>, <<3, 2>>}

SeqsUpTo(S, n) == UNION {[1..k -> S] : k \in 0..n}

\* RatioProducts, tuples of Fractions, and Fractions.
Operands ==
    {RP(rs) : rs \in SeqsUpTo(AlgebraRatios, MaxFactors)}
    \cup {Tuple(rs) : rs \in SeqsUpTo(AlgebraRatios, MaxFactors)}
    \cup {Fr(r) : r \in AlgebraRatios}

IsRP(x) == x.type = "RatioProduct"

\* a * b, where at least one operand is a RatioProduct.
Multiply ==
    /\ IsRP(operands[1]) \/ IsRP(operands[2])
    /\ answer' = [name |-> "mul", product |-> Mul(operands[1], operands[2])]
    /\ UNCHANGED <<music, edo, op, nops, operands>>

\* (a * b) * c and a * (b * c), each product having a RatioProduct operand.
MultiplyThree ==
    /\ IsRP(operands[1]) \/ IsRP(operands[2])
    /\ IsRP(operands[2]) \/ IsRP(operands[3])
    /\ answer' = [name |-> "mul3",
                  left |-> Mul(Mul(operands[1], operands[2]), operands[3]),
                  right |-> Mul(operands[1], Mul(operands[2], operands[3]))]
    /\ UNCHANGED <<music, edo, op, nops, operands>>

\* a == b for a RatioProduct a.
Equals ==
    /\ IsRP(operands[1])
    /\ answer' = [name |-> "eq", eq |-> Eq(operands[1], operands[2])]
    /\ UNCHANGED <<music, edo, op, nops, operands>>

\* a < b, a <= b, a > b, a >= b for a RatioProduct a and a b that evaluates
\* to a Number (comparing a Fraction with a tuple raises TypeError).
Order ==
    /\ IsRP(operands[1])
    /\ operands[2].type # "tuple"
    /\ answer' = [name |-> "order",
                  lt |-> Lt(operands[1], operands[2]),
                  le |-> Le(operands[1], operands[2]),
                  gt |-> Gt(operands[1], operands[2]),
                  ge |-> Ge(operands[1], operands[2])]
    /\ UNCHANGED <<music, edo, op, nops, operands>>

\* evaluate(a)
Evaluate ==
    /\ operands[1].type # "tuple"
    /\ answer' = [name |-> "evaluate", value |-> evaluate(operands[1])]
    /\ UNCHANGED <<music, edo, op, nops, operands>>

InitOperands ==
    /\ music = music_of(<<part(<<>>)>>)
    /\ edo = None
    /\ op = NoOp
    /\ nops = 0
    /\ operands \in Operands \X Operands \X Operands
    /\ answer = NoOp

NextAlgebra == Multiply \/ MultiplyThree \/ Equals \/ Order \/ Evaluate

SpecAlgebra == InitOperands /\ [][NextAlgebra]_vars

\* ------------------------------------------ SpecRange: the range of a float
\* temper_note on the Note held, a second time with the same edo only.
TemperNote(e) ==
    /\ music.type = "Note"
    /\ edo.type = "None" \/ edo = Some(e)
    /\ op' = [name |-> "temper_note", edo |-> e, again |-> edo.type # "None",
              note |-> music]
    /\ music' = temper_note_power_of_two(music, e)
    /\ edo' = Some(e)
    /\ UNCHANGED <<nops, operands, answer>>

InitRange ==
    /\ \E ks \in SeqsUpTo(Exponents, MaxFactors) :
          /\ ks # <<>>
          /\ music = Note(RatioProductOfPowers(ks), Fr(<<1, 1>>), Fr(<<1, 1>>))
    /\ edo = None
    /\ op = NoOp
    /\ nops = 0
    /\ InitAlgebra

NextRange == \E e \in Edos : TemperNote(e)

SpecRange == InitRange /\ [][NextRange]_vars

\* --------------------------- SpecQuantity: variable length quantities
\* The delta times a track can hold: the small ones, and those around the
\* values where another byte is needed.
MaxQuantity == 200

Quantities ==
    (0..MaxQuantity) \cup {16383, 16384, 2097151, 2097152, 268435455, 268435456}

VariableLengthQuantity ==
    /\ answer = NoOp
    /\ answer' = [name |-> "variable_length_quantity", n |-> operands[1],
                  hex |-> variable_length_quantity(operands[1])]
    /\ UNCHANGED <<music, edo, op, nops, operands>>

InitQuantity ==
    /\ music = music_of(<<part(<<>>)>>)
    /\ edo = None
    /\ op = NoOp
    /\ nops = 0
    /\ operands \in {<<n>> : n \in Quantities}
    /\ answer = NoOp

NextQuantity == VariableLengthQuantity

SpecQuantity == InitQuantity /\ [][NextQuantity]_vars

\* ------------------------------------- SpecMidiNote: Notes as MIDI notes
\* The Notes handed to to_midi, with the basic frequency and the pitch bend
\* range of the config, and the fields a MidiNote is constructed from.
MidiFrequencies ==
    {Ratio(0, 1), Ratio(1, 1), Ratio(3, 2), Ratio(5, 4), Ratio(3, 4),
     Ratio(64, 1), Ratio(1, 64), Power(2, 7, 12)}

MidiDurations == {Ratio(1, 1), Ratio(1, 2), Ratio(3, 1), Ratio(1, 13), Ratio(1, 6720)}

MidiVolumes ==
    {Fr(<<1, 1>>), Ratio(2, 1), Ratio(3, 1), Ratio(1, 128), Ratio(127, 64),
     Ratio(0, 1)}

BasicFrequencies == {440, 220}

PitchBendRanges == {0, 1, 2, 12}

NoteOperands ==
    {[note |-> Note(f, d, v), f0 |-> f0, pitch_bend_range |-> r] :
        f \in MidiFrequencies, d \in MidiDurations, v \in MidiVolumes,
        f0 \in BasicFrequencies, r \in PitchBendRanges}

FieldOperands ==
    {[pitch |-> p, bend |-> b, ticks |-> DIVISION, velocity |-> v] :
        p \in {-1, 0, 127, 128},
        b \in {None, Some(-1), Some(0), Some(PITCH_BEND_MAX), Some(PITCH_BEND_MAX + 1)},
        v \in {-1, 0, 127, 128}}

ToMidi ==
    /\ answer = NoOp
    /\ "note" \in DOMAIN operands
    /\ answer' = [name |-> "to_midi",
                  result |-> to_midi(operands.note, operands.f0,
                                     operands.pitch_bend_range)]
    /\ UNCHANGED <<music, edo, op, nops, operands>>

NewMidiNote ==
    /\ answer = NoOp
    /\ "pitch" \in DOMAIN operands
    /\ answer' = [name |-> "MidiNote",
                  result |-> MidiNote(operands.pitch, operands.bend,
                                      operands.ticks, operands.velocity)]
    /\ UNCHANGED <<music, edo, op, nops, operands>>

InitMidiNote ==
    /\ music = music_of(<<part(<<>>)>>)
    /\ edo = None
    /\ op = NoOp
    /\ nops = 0
    /\ operands \in NoteOperands \cup FieldOperands
    /\ answer = NoOp

NextMidiNote == ToMidi \/ NewMidiNote

SpecMidiNote == InitMidiNote /\ [][NextMidiNote]_vars

\* ------------------------------------------- SpecMidi: a Piece as a file
\* The parts a Piece is made of.  Those of MidiParts are played as they
\* are; each of OtherParts holds what a conversion stops at, or nothing.
MaxMidiParts == 3

MidiParts ==
    {part(<<note(Ratio(3, 2), Ratio(1, 1), None),
            note(Ratio(0, 1), Ratio(1, 2), None)>>),
     part(<<chord(<<Ratio(1, 1), Ratio(5, 4), Ratio(3, 2)>>, Ratio(1, 2), None),
            note(Ratio(1, 1), Ratio(3, 1), Ratio(3, 1))>>),
     part(<<chord(<<Ratio(1, 1), Ratio(5, 4), Ratio(3, 2), Ratio(2, 1),
                    Ratio(1, 2), Ratio(3, 4), Ratio(1, 1), Ratio(0, 1)>>,
                  Ratio(1, 1), None)>>),
     part(<<chord(<<Ratio(1, 1), Ratio(5, 4), Ratio(3, 2), Ratio(2, 1),
                    Ratio(1, 2), Ratio(3, 4)>>, Ratio(1, 4), None),
            chord(<<Ratio(1, 1), Ratio(2, 1)>>, Ratio(1, 1), None)>>)}

OtherParts ==
    {part(<<>>),
     part(<<note(Ratio(64, 1), Ratio(1, 1), None)>>),
     part(<<note(Ratio(3, 2), Ratio(1, 13), None)>>),
     part(<<chord(<<>>, Ratio(1, 1), None)>>)}

MidiPieces ==
    {music_of(ps) : ps \in UNION {[1..k -> MidiParts] : k \in 0..MaxMidiParts}}
        \cup {music_of(<<p>>) : p \in OtherParts}
        \cup {music_of(<<p, q>>) : p \in MidiParts, q \in OtherParts}
        \cup {music_of(<<p, q, part(<<>>)>>) : p \in MidiParts, q \in MidiParts}

PartConfig(program) == [program |-> program]

Config(t, f, tuning_method, pitch_bend_range, parts) ==
    [t |-> t, f |-> f, tuning_method |-> tuning_method,
     pitch_bend_range |-> pitch_bend_range, parts |-> parts]

Configs ==
    {Config(<<1, 2>>, 440, "PITCH_BEND", 2, List(<<PartConfig(None)>>)),
     Config(<<1, 1>>, 220, "PITCH_BEND", 12,
            List(<<PartConfig(Some(47)), PartConfig(Some(1))>>)),
     Config(<<17, 1>>, 440, "PITCH_BEND", 2, List(<<PartConfig(None)>>)),
     Config(<<1, 2>>, 440, "PITCH_BEND", 2, List(<<>>)),
     Config(<<1, 2>>, 440, "SCALA", 2, List(<<PartConfig(None)>>))}

\* The channel lists chord_to_midi is called with.  Each behaviour makes one
\* conversion of its Piece.
ChannelLists == {<<0>>, <<1, 2, 3>>, <<3, 4, 5, 6, 7, 8, 10, 11>>}

ChordToMidi(notes, channels) ==
    /\ answer = NoOp
    /\ answer' = [name |-> "chord_to_midi", notes |-> notes, channels |-> channels,
                  result |-> chord_to_midi(notes, operands.f, channels,
                                           operands.pitch_bend_range)]
    /\ UNCHANGED <<music, edo, op, nops, operands>>

PartMidiTracks ==
    /\ answer = NoOp
    /\ answer' = [name |-> "part_midi_tracks",
                  result |-> part_midi_tracks(music, operands.f,
                                              ProgramsOf(operands),
                                              operands.pitch_bend_range)]
    /\ UNCHANGED <<music, edo, op, nops, operands>>

MusicToMidiFile ==
    /\ answer = NoOp
    /\ answer' = [name |-> "music_to_midi_file",
                  result |-> music_to_midi_file(music, operands)]
    /\ UNCHANGED <<music, edo, op, nops, operands>>

InitMidi ==
    /\ music \in MidiPieces
    /\ edo = None
    /\ op = NoOp
    /\ nops = 0
    /\ operands \in Configs
    /\ answer = NoOp

NextMidi ==
    \/ \E i \in 1..Len(music.items) : \E k \in 1..Len(music.items[i].items) :
         \E channels \in ChannelLists :
            ChordToMidi(music.items[i].items[k], channels)
    \/ PartMidiTracks
    \/ MusicToMidiFile

SpecMidi == InitMidi /\ [][NextMidi]_vars

\* ------------------------------------- SpecLilypond: durations as notes
\* The durations n/d written in a source text, and the durations
\* 2^a / (2^k - 1) around the largest denominator whose logarithm a float
\* tells from the next integer.
MaxNumerator == 9

Denominators == {1, 2, 3, 4, 5, 6, 7, 8, 9, 12, 16, 32, 64, 96}

DenominatorExponents == {2, 3, 47, 48, 49, 50}

LilypondNotes ==
    {Note(Ratio(1, 1), Ratio(n, d), Fr(<<1, 1>>)) :
        n \in 0..MaxNumerator, d \in Denominators}
    \cup {Note(Ratio(1, 1), PowerDuration(k - e, k), Fr(<<1, 1>>)) :
            k \in DenominatorExponents, e \in 0..7}

LilypondDuration ==
    /\ answer = NoOp
    /\ operands.duration.type = "RatioProduct"
    /\ answer' = [name |-> "lilypond_duration",
                  result |-> lilypond_duration(operands)]
    /\ UNCHANGED <<music, edo, op, nops, operands>>

LilypondDurationOfPowers ==
    /\ answer = NoOp
    /\ operands.duration.type = "Fraction"
    /\ answer' = [name |-> "lilypond_duration",
                  result |-> lilypond_duration_of_powers(operands)]
    /\ UNCHANGED <<music, edo, op, nops, operands>>

InitLilypond ==
    /\ music = music_of(<<part(<<>>)>>)
    /\ edo = None
    /\ op = NoOp
    /\ nops = 0
    /\ operands \in LilypondNotes
    /\ answer = NoOp

NextLilypond == LilypondDuration \/ LilypondDurationOfPowers

SpecLilypond == InitLilypond /\ [][NextLilypond]_vars

\* ------------------------------ SpecAnalysis: the functions of any value
\* The analysis functions and apply_to_notes are called with Music of every
\* variant and with values of other types: None, ints, and the strs '' and
\* 'f00'.
RECURSIVE Within(_)
Within(m) ==
    {m} \cup (IF m.type = "Note" THEN {}
              ELSE UNION {Within(m.items[i]) : i \in 1..Len(m.items)})

OtherValues == {None, Some(0), Some(5), Str(<<>>), Str(<<15, 0, 0>>)}

Values == UNION {Within(m) : m \in ExamplePieces} \cup OtherValues

Returned(name, result) == [name |-> name, result |-> result]

TotalDuration ==
    /\ answer = NoOp
    /\ answer' = Returned("total_duration", total_duration(operands))
    /\ UNCHANGED <<music, edo, op, nops, operands>>

Height ==
    /\ answer = NoOp
    /\ answer' = Returned("height", height(operands))
    /\ UNCHANGED <<music, edo, op, nops, operands>>

FrequenciesSet ==
    /\ answer = NoOp
    /\ answer' = Returned("frequencies_set", frequencies_set(operands))
    /\ UNCHANGED <<music, edo, op, nops, operands>>

AllFrequencies ==
    /\ answer = NoOp
    /\ answer' = Returned("all_frequencies", all_frequencies(operands))
    /\ UNCHANGED <<music, edo, op, nops, operands>>

Lowest ==
    /\ answer = NoOp
    /\ answer' = Returned("lowest", lowest(operands))
    /\ UNCHANGED <<music, edo, op, nops, operands>>

\* apply_to_notes(value, partial(temper_note, edo=e))
ApplyToNotes(e) ==
    /\ answer = NoOp
    /\ answer' = Returned("apply_to_notes",
                          apply_to_notes(operands, [fn |-> "temper_note", arg |-> e]))
    /\ UNCHANGED <<music, edo, op, nops, operands>>

InitAnalysis ==
    /\ music = music_of(<<part(<<>>)>>)
    /\ edo = None
    /\ op = NoOp
    /\ nops = 0
    /\ operands \in Values
    /\ answer = NoOp

NextAnalysis ==
    \/ TotalDuration
    \/ Height
    \/ FrequenciesSet
    \/ AllFrequencies
    \/ Lowest
    \/ \E e \in Edos : ApplyToNotes(e)

SpecAnalysis == InitAnalysis /\ [][NextAnalysis]_vars

\* --------------------------------- SpecCompile: compiles with one Config
\* A caller holds one Piece and one Config object and calls the functions
\* of jird.midi with them, MaxCalls times at most: operands is the Config as
\* it is now, answer.files the midi files written for the Piece with it, in
\* the order of the calls, and op the last call.
MaxCalls == 3

Synths == {"FLUIDSYNTH", "ZYNADDSUBFX", "SURGE_XT"}

\* Config(t=..., f=..., tuning_method=..., synth=...)
ConfigOf(config, synth) ==
    [t |-> config.t, f |-> config.f, tuning_method |-> config.tuning_method,
     pitch_bend_range |-> config.pitch_bend_range, parts |-> config.parts,
     synth |-> synth]

CompileConfigs ==
    {ConfigOf(Config(<<1, 2>>, 440, tuning_method, 2, List(<<PartConfig(None)>>)),
              synth) :
        tuning_method \in {"SCALA", "PITCH_BEND"}, synth \in Synths}

CompilePieces == {music_of(<<p>>) : p \in MidiParts} \cup {music_of(<<part(<<>>)>>)}

\* music_to_midi_file(music, config)
Compile ==
    /\ nops < MaxCalls
    /\ nops' = nops + 1
    /\ op' = [name |-> "music_to_midi_file"]
    /\ answer' = [answer EXCEPT
                    !.files = Append(@, music_to_midi_file(music, operands))]
    /\ UNCHANGED <<music, edo, operands>>

\* music_to_midi_file(m, config, filename=another) for another Piece m.
CompileOther(m) ==
    /\ nops < MaxCalls
    /\ nops' = nops + 1
    /\ op' = [name |-> "music_to_midi_file", other |-> music_to_midi_file(m, operands)]
    /\ UNCHANGED <<music, edo, operands, answer>>

\* play_music(music, config=config)
PlayMusic ==
    /\ nops < MaxCalls
    /\ nops' = nops + 1
    /\ op' = [name |-> "play_music"]
    /\ LET played == play_music(music, operands) IN
        /\ operands' = played.config
        /\ answer' = IF played.file = None THEN answer
                     ELSE [answer EXCEPT !.files = Append(@, played.file)]
    /\ UNCHANGED <<music, edo>>

InitCompile ==
    /\ music \in CompilePieces
    /\ edo = None
    /\ op = NoOp
    /\ nops = 0
    /\ operands \in CompileConfigs
    /\ answer = [name |-> "files", files |-> <<>>]

NextCompile ==
    \/ Compile
    \/ \E m \in CompilePieces \ {music} : CompileOther(m)
    \/ PlayMusic

SpecCompile == InitCompile /\ [][NextCompile]_vars

\* ------------------------------------- SpecChord: chords as lilypond text
\* Chords of up to MaxMembers Notes of one beat: the frequencies are
\* products of one or two of the factors 0, 2 and 3/2, the Fraction 3/2,
\* and the tempered 2 ** (12/12).
MaxMembers == 2

ChordFactors == {<<0, 1>>, <<2, 1>>, <<3, 2>>}

MemberFrequencies ==
    {RP(<<a>>) : a \in ChordFactors}
        \cup {RP(<<a, b>>) : a \in ChordFactors, b \in ChordFactors}
        \cup {Fr(<<3, 2>>), Power(2, 12, 12)}

LilypondChords ==
    UNION {{Tuple([i \in 1..n |-> Note(fs[i], Ratio(1, 1), Fr(<<1, 1>>))]) :
                fs \in [1..n -> MemberFrequencies]} : n \in 0..MaxMembers}

LilypondChord ==
    /\ answer = NoOp
    /\ answer' = [name |-> "lilypond_chord", result |-> lilypond_chord(operands)]
    /\ UNCHANGED <<music, edo, op, nops, operands>>

\* _count_leading_shared of the frequencies of the chord that are
\* RatioProducts, in the order written.
CountLeadingShared ==
    /\ answer = NoOp
    /\ LET parts == SelectSeq([i \in 1..Len(operands.items) |->
                                 operands.items[i].frequency],
                              LAMBDA f : f.type = "RatioProduct")
       IN  answer' = [name |-> "_count_leading_shared",
                      result |-> _count_leading_shared(
                                     [i \in 1..Len(parts) |-> parts[i].ratios])]
    /\ UNCHANGED <<music, edo, op, nops, operands>>

InitChord ==
    /\ music = music_of(<<part(<<>>)>>)
    /\ edo = None
    /\ op = NoOp
    /\ nops = 0
    /\ operands \in LilypondChords
    /\ answer = NoOp

NextChord == LilypondChord \/ CountLeadingShared

SpecChord == InitChord /\ [][NextChord]_vars

\* ------------------------------------- SpecTempo: the tempo track of t0
\* Basic time units t0 > 0 of n, n/2, n/4 seconds and n microseconds, n up
\* to MaxSeconds and the n around 2^28 microseconds; each is a float, or
\* a float that round(t0 / 1e-6) takes to n.
MaxSeconds == 20

TimeUnits ==
    {Fraction(n, d) : n \in 1..MaxSeconds \cup {268, 269, 300},
                      d \in {1, 2, 4, 1000000}}

TempoTrack ==
    /\ answer = NoOp
    /\ answer' = [name |-> "tempo_track", result |-> tempo_track(operands)]
    /\ UNCHANGED <<music, edo, op, nops, operands>>

InitTempo ==
    /\ music = music_of(<<part(<<>>)>>)
    /\ edo = None
    /\ op = NoOp
    /\ nops = 0
    /\ operands \in TimeUnits
    /\ answer = NoOp

NextTempo == TempoTrack

SpecTempo == InitTempo /\ [][NextTempo]_vars

\* --------------------------------- SpecRender: process_part and its retries
\* One call of process_part(part, config): operands is the part, the
\* tuning method and what all_frequencies(part) is, op the place the call
\* has reached and its counter n, nops the number of calls of the part
\* renderer so far, and answer what the call returned or raised.
MaxAttempts == 10

RenderError == [type |-> "RenderError"]

RetryingOnceMore(n) == n <= MaxAttempts

\* while n < 10
Retrying(n) == n < MaxAttempts

RenderParts ==
    MidiParts \cup OtherParts
        \cup {part(<<note(Ratio(0, 1), Ratio(1, 1), None)>>),
              part(<<chord(<<Ratio(0, 1), Ratio(0, 1)>>, Ratio(1, 2), None),
                     note(Mul(Ratio(3, 2), Ratio(0, 1)), Ratio(1, 1), None)>>)}

\* What one call of the part renderer ends with: the buffer, or an
\* exception.  Only process_part_scala raises RenderError, when the buffer
\* holds nans; both renderers assert, and so do setup_surge and to_midi.
RenderOutcomes(tuning_method) ==
    {[type |-> "ndarray"], AssertionError}
        \cup (IF tuning_method = "SCALA" THEN {RenderError} ELSE {})

At(pc, n) == [name |-> "process_part", pc |-> pc, n |-> n]

\* process_part up to the loop: np.zeros((2, 0)) for a part without a
\* sounding frequency.
ProcessPart ==
    /\ op.pc = "start"
    /\ IF operands.all_frequencies = <<>>
       THEN /\ op' = At("done", 0)
            /\ answer' = Returned("process_part", [type |-> "ndarray", shape |-> <<2, 0>>])
       ELSE /\ op' = At("loop", 0)
            /\ UNCHANGED answer
    /\ UNCHANGED <<music, edo, nops, operands>>

\* One pass of the loop: process(part, config, index) returns, raises
\* RenderError, or raises something else, which process_part does not catch.
Attempt(outcome) ==
    /\ op.pc = "loop"
    /\ Retrying(op.n)
    /\ nops' = nops + 1
    /\ IF outcome = RenderError
       THEN /\ op' = At("loop", op.n + 1)
            /\ UNCHANGED answer
       ELSE /\ op' = At("done", op.n)
            /\ answer' = Returned("process_part",
                                  IF outcome.type = "ndarray"
                                  THEN [type |-> "ndarray", attempt |-> nops + 1]
                                  ELSE outcome)
    /\ UNCHANGED <<music, edo, operands>>

\* raise RenderError, after the loop.
GiveUp ==
    /\ op.pc = "loop"
    /\ ~Retrying(op.n)
    /\ op' = At("done", op.n)
    /\ answer' = Returned("process_part", RenderError)
    /\ UNCHANGED <<music, edo, nops, operands>>

InitRender ==
    /\ music = music_of(<<part(<<>>)>>)
    /\ edo = None
    /\ op = At("start", 0)
    /\ nops = 0
    /\ operands \in {[part |-> p, tuning_method |-> t,
                         all_frequencies |-> all_frequencies(p)] :
                        p \in RenderParts, t \in {"PITCH_BEND", "SCALA"}}
    /\ answer = NoOp

NextRender ==
    \/ ProcessPart
    \/ \E outcome \in RenderOutcomes(operands.tuning_method) : Attempt(outcome)
    \/ GiveUp

\* The call runs on while it can.
SpecRender == InitRender /\ [][NextRender]_vars /\ WF_vars(NextRender)

\* ------------------------------- SpecSurge: setup_surge and the one synth
\* One Python process: op holds the module global SURGE, whether
\* `import surgepy` succeeded when the module was loaded, and the number of
\* SurgeSynthesizers surgepy.createSurge has returned; operands is the
\* sample rates setup_surge has been called with so far, nops their number,
\* and answer what the last call returned or raised.
SampleRates == {22050, 44100, 48000}

SurgeSynthesizer(sample_rate, serial) ==
    [type |-> "SurgeSynthesizer", sample_rate |-> sample_rate, serial |-> serial]

DifferentSampleRate ==
    [type |-> "AssertionError",
     message |-> "Surge already created with different sample rate"]

ModuleNotFoundError ==
    [type |-> "ModuleNotFoundError", message |-> "No module named 'surgepy'"]

\* What surgepy.createSurge may raise; setup_surge catches NameError only.
RuntimeError == [type |-> "RuntimeError"]

\* SURGE.getSampleRate()
getSampleRate(surge) == surge.sample_rate

setup_surge_for_each_rate(SURGE, sample_rate, surgepy, created) ==
    IF SURGE # None /\ getSampleRate(SURGE) = sample_rate
    THEN [SURGE |-> SURGE, created |-> FALSE, result |-> None]
    ELSE IF ~surgepy
    THEN [SURGE |-> SURGE, created |-> FALSE, result |-> ModuleNotFoundError]
    ELSE IF created.type = "SurgeSynthesizer"
    THEN [SURGE |-> created, created |-> TRUE, result |-> None]
    ELSE [SURGE |-> SURGE, created |-> FALSE, result |-> created]

\* setup_surge(sample_rate) with the global SURGE as it is before the call;
\* surgepy says whether the name surgepy is bound, created is what
\* surgepy.createSurge(sample_rate) returns or raises if it is called.  The
\* value is the global after the call, whether createSurge returned an
\* instance, and what the call returned or raised.
setup_surge(SURGE, sample_rate, surgepy, created) ==
    IF SURGE # None
    THEN IF getSampleRate(SURGE) = sample_rate
         THEN [SURGE |-> SURGE, created |-> FALSE, result |-> None]
         ELSE [SURGE |-> SURGE, created |-> FALSE, result |-> DifferentSampleRate]
    ELSE IF ~surgepy
    THEN [SURGE |-> SURGE, created |-> FALSE, result |-> ModuleNotFoundError]
    ELSE IF created.type = "SurgeSynthesizer"
    THEN [SURGE |-> created, created |-> TRUE, result |-> None]
    ELSE [SURGE |-> SURGE, created |-> FALSE, result |-> created]

Process(SURGE, surgepy, created) ==
    [name |-> "surge", SURGE |-> SURGE, surgepy |-> surgepy, created |-> created]

SetupSurgeCall(sample_rate, call) ==
    /\ op' = Process(call.SURGE, op.surgepy,
                     op.created + (IF call.created THEN 1 ELSE 0))
    /\ operands' = Append(operands, sample_rate)
    /\ nops' = nops + 1
    /\ answer' = Returned("setup_surge", call.result)
    /\ UNCHANGED <<music, edo>>

\* A call in which surgepy.createSurge, if reached, returns a synth.
SetupSurge(sample_rate) ==
    /\ nops < MaxCalls
    /\ SetupSurgeCall(sample_rate,
                      setup_surge(op.SURGE, sample_rate, op.surgepy,
                                  SurgeSynthesizer(sample_rate, op.created + 1)))

\* A call in which surgepy.createSurge is reached and raises.
SetupSurgeCreateFails(sample_rate) ==
    /\ nops < MaxCalls
    /\ op.SURGE = None
    /\ op.surgepy
    /\ SetupSurgeCall(sample_rate,
                      setup_surge(op.SURGE, sample_rate, op.surgepy, RuntimeError))

InitSurge ==
    /\ music = music_of(<<part(<<>>)>>)
    /\ edo = None
    /\ op \in {Process(None, surgepy, 0) : surgepy \in BOOLEAN}
    /\ nops = 0
    /\ operands = <<>>
    /\ answer = NoOp

NextSurge ==
    \/ \E sample_rate \in SampleRates : SetupSurge(sample_rate)
    \/ \E sample_rate \in SampleRates : SetupSurgeCreateFails(sample_rate)

SpecSurge == InitSurge /\ [][NextSurge]_vars

\* ----------------------------------- SpecZyn: play_with_zyn and its process
\* One call of play_with_zyn(config, part_channels, scala_data, filepath):
\* operands is what the call is given, op the place it has reached, its
\* counter n and the Zyn process p once started, nops the number of
\* `aconnect -o` polls so far, and answer what the call returned or raised.
MaxPolls == 50

max_parts == 16

CalledProcessError(command) == [type |-> "CalledProcessError", command |-> command]

FileNotFoundError(command) == [type |-> "FileNotFoundError", command |-> command]

\* sys.exit(1)
SystemExit == [type |-> "SystemExit", code |-> 1]

\* The subprocess.Popen of zynaddsubfx.
Popen(state) == [type |-> "Popen", command |-> "zynaddsubfx", state |-> state]

\* What `aconnect -o` prints: str(p.pid) is in it or not.
AconnectOutput(listed) == [type |-> "str", listed |-> listed]

\* while n < 50 and ...
Waiting(n) == n < MaxPolls

\* What play_with_zyn does before it starts Zyn: the exception it raises,
\* or None.  parts is len(config.parts), part_channels the number of
\* channels of each part.
ZynConfigFailure(tuning_method, scala_data, parts, part_channels) ==
    IF tuning_method = "SCALA" /\ scala_data = None
    THEN AssertionError
    ELSE IF tuning_method \notin {"SCALA", "PITCH_BEND"}
    THEN ValueError(tuning_method)
    ELSE IF parts < Len(part_channels) /\ parts = 0
    THEN IndexError
    ELSE LET zyn_parts == IF parts < Len(part_channels)
                          THEN Len(part_channels) ELSE parts
             used == SumInt([i \in 1..Len(part_channels) |-> part_channels[i]])
         IN  IF used > max_parts THEN AssertionError ELSE None

ZynAt(pc, n, p) == [name |-> "play_with_zyn", pc |-> pc, n |-> n, p |-> p]

ZynEnds(result) ==
    /\ op' = ZynAt("done", op.n, op.p)
    /\ answer' = Returned("play_with_zyn", result)

\* Up to zyn_config.to_xml(zyn_config_path).
WriteZynConfig ==
    /\ op.pc = "start"
    /\ LET failure == ZynConfigFailure(operands.tuning_method, operands.scala_data,
                                       operands.parts, operands.part_channels)
       IN  IF failure = None
           THEN /\ op' = ZynAt("run_async", 0, None)
                /\ UNCHANGED answer
           ELSE ZynEnds(failure)
    /\ UNCHANGED <<music, edo, nops, operands>>

\* p = run_async(["zynaddsubfx", ...]): the process is started, or
\* zynaddsubfx is not installed and run_async exits.
RunAsync(found) ==
    /\ op.pc = "run_async"
    /\ IF found
       THEN /\ op' = ZynAt("wait", 0, Popen("running"))
            /\ UNCHANGED answer
       ELSE ZynEnds(SystemExit)
    /\ UNCHANGED <<music, edo, nops, operands>>

\* One test of the while condition with n < 50: `aconnect -o` is run; it
\* lists the pid, or it does not and the call sleeps, or check_output
\* raises.
Poll(output) ==
    /\ op.pc = "wait"
    /\ Waiting(op.n)
    /\ nops' = nops + 1
    /\ IF output = AconnectOutput(TRUE)
       THEN /\ op' = ZynAt("aplaymidi", op.n, op.p)
            /\ UNCHANGED answer
       ELSE IF output = AconnectOutput(FALSE)
       THEN /\ op' = ZynAt("wait", op.n + 1, op.p)
            /\ UNCHANGED answer
       ELSE ZynEnds(output)
    /\ UNCHANGED <<music, edo, operands>>

\* The while condition with n = 50: aconnect is not run again.
StopWaiting ==
    /\ op.pc = "wait"
    /\ ~Waiting(op.n)
    /\ op' = ZynAt("aplaymidi", op.n, op.p)
    /\ UNCHANGED <<music, edo, nops, operands, answer>>

\* run(["aplaymidi", "-p", "ZynAddSubFX", filepath], ...): it returns,
\* re-raises the CalledProcessError of a nonzero exit, or exits when
\* aplaymidi is not installed.
Aplaymidi(outcome) ==
    /\ op.pc = "aplaymidi"
    /\ IF outcome = None
       THEN /\ op' = ZynAt("kill", op.n, op.p)
            /\ UNCHANGED answer
       ELSE ZynEnds(outcome)
    /\ UNCHANGED <<music, edo, nops, operands>>

\* p.kill(), and the return.
KillZyn ==
    /\ op.pc = "kill"
    /\ op' = ZynAt("done", op.n, Popen("killed"))
    /\ answer' = Returned("play_with_zyn", None)
    /\ UNCHANGED <<music, edo, nops, operands>>

PollOutputs ==
    {AconnectOutput(TRUE), AconnectOutput(FALSE),
     CalledProcessError("aconnect"), FileNotFoundError("aconnect")}

AplaymidiOutcomes == {None, CalledProcessError("aplaymidi"), SystemExit}

ZynCalls ==
    {[tuning_method |-> t, scala_data |-> s, parts |-> n, part_channels |-> c] :
        t \in {"SCALA", "PITCH_BEND"}, s \in {None, [type |-> "ScalaData"]},
        n \in 0..2, c \in {<<>>, <<1>>, <<2, 1>>, <<9, 8>>}}

InitZyn ==
    /\ music = music_of(<<part(<<>>)>>)
    /\ edo = None
    /\ op = ZynAt("start", 0, None)
    /\ nops = 0
    /\ operands \in ZynCalls
    /\ answer = NoOp

NextZyn ==
    \/ WriteZynConfig
    \/ \E found \in BOOLEAN : RunAsync(found)
    \/ \E output \in PollOutputs : Poll(output)
    \/ StopWaiting
    \/ \E outcome \in AplaymidiOutcomes : Aplaymidi(outcome)
    \/ KillZyn

\* The call runs on while it can.
SpecZyn == InitZyn /\ [][NextZyn]_vars /\ WF_vars(NextZyn)

\* ================================================================ claims
\* What the claims are stated with: the Notes of a Music read off its
\* nesting, and sums and maxima stated by what they are, not by a fold.
Members(m) == [i \in 1..Len(m.items) |-> m.items[i]]

Parts == Members(music)

\* The chords of the Piece: the tuples among the events of its parts.
Chords == {e \in UNION {{p.items[i] : i \in 1..Len(p.items)} :
                            p \in {Parts[j] : j \in 1..Len(Parts)}} :
                e.type = "tuple"}

AllNotes == {notes_of(music)[i] : i \in 1..Len(notes_of(music))}

Zero == <<0, 1, 1>>

\* v is the largest of the Numbers xs, and 0 when there are none.
IsMaxOf(v, xs) ==
    IF Len(xs) = 0 THEN v = Zero
    ELSE /\ \E i \in 1..Len(xs) : v = xs[i]
         /\ \A i \in 1..Len(xs) : NumLe(xs[i], v)

\* The product of the denominators of the Fractions xs but the i-th.
RECURSIVE DenProductBut(_, _, _)
DenProductBut(xs, i, k) ==
    IF k > Len(xs) THEN 1
    ELSE (IF k = i THEN 1 ELSE xs[k][2]) * DenProductBut(xs, i, k + 1)

RECURSIVE NumeratorSum(_, _)
NumeratorSum(xs, i) ==
    IF i > Len(xs) THEN 0
    ELSE xs[i][1] * DenProductBut(xs, i, 1) + NumeratorSum(xs, i + 1)

\* v is the sum of the rational Numbers xs: v = (sum of n_i D / d_i) / D
\* over the common denominator D, and v is in lowest terms.
IsSumOf(v, xs) ==
    /\ v[3] = 1 /\ v[2] > 0 /\ GCD(Abs(v[1]), v[2]) = 1
    /\ \A i \in 1..Len(xs) : xs[i][3] = 1
    /\ v[1] * DenProductBut(xs, 0, 1) = v[2] * NumeratorSum(xs, 1)

\* C8: total_duration of a Note is its evaluated duration, of a Part the sum
\* of its members' total durations, of a Chord and of the Piece the largest
\* of its members' total durations, and 0 for an empty Part, Chord or Piece.
C8_TotalDuration ==
    /\ \A n \in AllNotes : total_duration(n) = evaluate(n.duration)
    /\ \A c \in Chords :
          IsMaxOf(total_duration(c),
                  [i \in 1..Len(c.items) |-> evaluate(c.items[i].duration)])
    /\ \A j \in 1..Len(Parts) :
          /\ IsSumOf(total_duration(Parts[j]),
                     [i \in 1..Len(Parts[j].items) |->
                        total_duration(Parts[j].items[i])])
          /\ Parts[j].items = <<>> => total_duration(Parts[j]) = Zero
    /\ IsMaxOf(total_duration(music),
               [j \in 1..Len(Parts) |-> total_duration(Parts[j])])

\* A Piece of two parts, the first a chord followed by a Note of another
\* duration, the second empty: the sum, the maximum and the 0 all occur.
C8_Witness ==
    /\ Len(Parts) = 2
    /\ Len(Parts[1].items) = 2
    /\ Parts[1].items[1].type = "tuple" /\ Len(Parts[1].items[1].items) = 2
    /\ Parts[1].items[2].type = "Note"
    /\ total_duration(Parts[1].items[1]) = <<1, 1, 1>>
    /\ total_duration(Parts[1].items[2]) = <<1, 2, 1>>
    /\ Parts[2].items = <<>>
    /\ total_duration(music) = <<3, 2, 1>>

\* n is the sum (the largest, 0 if none) of the integers xs.
RECURSIVE IntSumFrom(_, _)
IntSumFrom(xs, i) == IF i > Len(xs) THEN 0 ELSE xs[i] + IntSumFrom(xs, i + 1)

IsMaxIntOf(n, xs) ==
    IF Len(xs) = 0 THEN n = 0
    ELSE /\ \E i \in 1..Len(xs) : n = xs[i]
         /\ \A i \in 1..Len(xs) : xs[i] <= n

\* C9: height of a Note is 1, of a Chord and of the Piece the sum of its
\* members' heights, of a Part the largest of its members' heights, and 0
\* for an empty Part, Chord or Piece.
C9_Height ==
    /\ \A n \in AllNotes : height(n) = 1
    /\ \A c \in Chords : height(c) = Len(c.items)
    /\ \A j \in 1..Len(Parts) :
          IsMaxIntOf(height(Parts[j]),
                     [i \in 1..Len(Parts[j].items) |-> height(Parts[j].items[i])])
    /\ height(music) = IntSumFrom([j \in 1..Len(Parts) |-> height(Parts[j])], 1)
    /\ height(Tuple(<<>>)) = 0

\* A Piece of two parts, the first holding a Note and a chord of three
\* Notes, whose height is 3 and not 4, the second empty.
C9_Witness ==
    /\ Len(Parts) = 2
    /\ Len(Parts[1].items) = 2
    /\ \E i \in 1..2 : Parts[1].items[i].type = "Note"
    /\ \E i \in 1..2 : Parts[1].items[i].type = "tuple" /\ height(Parts[1].items[i]) = 3
    /\ height(Parts[1]) = 3
    /\ height(Parts[2]) = 0
    /\ height(music) = 3

\* The evaluated frequencies of the Notes that are not rests.
SoundingFrequencies ==
    {evaluate(n.frequency) : n \in {x \in AllNotes : evaluate(x.frequency)[1] # 0}}

\* C10: frequencies_set and all_frequencies hold exactly the evaluated
\* frequencies of the Notes that are not rests, never 0; all_frequencies is
\* strictly ascending; lowest is the least of them, never 0, and +infinity
\* when there is none.
C10_Frequencies ==
    /\ frequencies_set(music) = SoundingFrequencies
    /\ Zero \notin frequencies_set(music)
    /\ LET fs == all_frequencies(music) IN
        /\ {fs[i] : i \in 1..Len(fs)} = SoundingFrequencies
        /\ \A i \in 1..Len(fs) - 1 : NumLt(fs[i], fs[i + 1])
    /\ lowest(music) # Zero
    /\ IF SoundingFrequencies = {} THEN lowest(music) = Inf
       ELSE /\ lowest(music) \in SoundingFrequencies
            /\ \A f \in SoundingFrequencies : NumLe(lowest(music), f)

\* A tempered Piece with a rest, and with three sounding frequencies of which
\* the first in the Piece is not the lowest.
C10_Witness ==
    /\ edo.type = "int"
    /\ \E n \in AllNotes : evaluate(n.frequency)[1] = 0
    /\ Cardinality(frequencies_set(music)) = 3
    /\ NumLt(lowest(music), evaluate(notes_of(music)[1].frequency))

\* The factors an operand stands for: those of a RatioProduct, the members
\* of a tuple, the one Fraction itself.
Factors(x) ==
    CASE x.type = "RatioProduct" -> x.ratios
      [] x.type = "tuple" -> x.items
      [] x.type = "Fraction" -> <<x.value>>

RECURSIVE NumeratorProduct(_, _)
NumeratorProduct(rs, i) ==
    IF i > Len(rs) THEN 1 ELSE rs[i][1] * NumeratorProduct(rs, i + 1)

RECURSIVE DenominatorProduct(_, _)
DenominatorProduct(rs, i) ==
    IF i > Len(rs) THEN 1 ELSE rs[i][2] * DenominatorProduct(rs, i + 1)

\* The Number v is the product of the Fractions rs, in lowest terms.
IsProductOf(v, rs) ==
    /\ v[3] = 1 /\ v[2] > 0 /\ GCD(Abs(v[1]), v[2]) = 1
    /\ v[1] * DenominatorProduct(rs, 1) = v[2] * NumeratorProduct(rs, 1)

\* The product of the Fractions rs is less than that of the Fractions ts.
ProductLess(rs, ts) ==
    NumeratorProduct(rs, 1) * DenominatorProduct(ts, 1)
        < NumeratorProduct(ts, 1) * DenominatorProduct(rs, 1)

\* C4: a * b, at least one operand a RatioProduct, is the RatioProduct of the
\* factors of a followed by the factors of b, none collapsed; so the
\* multiplication is associative, the empty RatioProduct is its identity,
\* and evaluate(a * b) = evaluate(a) * evaluate(b).
C4_MulConcatenates ==
    LET a == operands[1]
        b == operands[2]
    IN  /\ answer.name = "mul" =>
            /\ answer.product.type = "RatioProduct"
            /\ Len(answer.product.ratios) = Len(Factors(a)) + Len(Factors(b))
            /\ \A i \in 1..Len(Factors(a)) : answer.product.ratios[i] = Factors(a)[i]
            /\ \A i \in 1..Len(Factors(b)) :
                  answer.product.ratios[Len(Factors(a)) + i] = Factors(b)[i]
            /\ a = RP(<<>>) => answer.product.ratios = Factors(b)
            /\ b = RP(<<>>) => answer.product.ratios = Factors(a)
            /\ IsProductOf(evaluate(answer.product), Factors(a) \o Factors(b))
            /\ LET va == evaluate(RP(Factors(a)))
                   vb == evaluate(RP(Factors(b)))
               IN  /\ IsProductOf(va, Factors(a))
                   /\ IsProductOf(vb, Factors(b))
                   /\ evaluate(answer.product) =
                         Num(FracMul(<<va[1], va[2]>>, <<vb[1], vb[2]>>))
        /\ answer.name = "mul3" => answer.left = answer.right

\* A Fraction times a RatioProduct of two different factors: __rmul__ has
\* put the Fraction first and kept the order of the two.
C4_Witness ==
    /\ answer.name = "mul"
    /\ operands[1].type = "Fraction"
    /\ operands[2].type = "RatioProduct"
    /\ Len(answer.product.ratios) = 3
    /\ answer.product.ratios[1] = operands[1].value
    /\ answer.product.ratios[2] # answer.product.ratios[3]
    /\ answer.product.ratios[1] # answer.product.ratios[2]

\* C5: two RatioProducts are equal exactly when their factor sequences are
\* (same count, same factors, same order), whatever they evaluate to; a < b,
\* a <= b, a > b and a >= b are those of the evaluated values.
C5_EqualityAndOrder ==
    LET a == operands[1]
        b == operands[2]
    IN  /\ (answer.name = "eq" /\ b.type = "RatioProduct") =>
            (answer.eq <=>
                /\ Len(a.ratios) = Len(b.ratios)
                /\ \A i \in 1..Len(a.ratios) : a.ratios[i] = b.ratios[i])
        /\ answer.name = "order" =>
            /\ answer.lt <=> ProductLess(Factors(a), Factors(b))
            /\ answer.gt <=> ProductLess(Factors(b), Factors(a))
            /\ answer.le <=> ~ProductLess(Factors(b), Factors(a))
            /\ answer.ge <=> ~ProductLess(Factors(a), Factors(b))

\* Two RatioProducts of the same factors in another order: the same value,
\* and a == b is False.
C5_Witness ==
    /\ answer.name = "eq"
    /\ operands[1].type = "RatioProduct" /\ operands[2].type = "RatioProduct"
    /\ Len(operands[1].ratios) = 2 /\ Len(operands[2].ratios) = 2
    /\ operands[1].ratios[1] = operands[2].ratios[2]
    /\ operands[1].ratios[2] = operands[2].ratios[1]
    /\ operands[1].ratios[1] # operands[1].ratios[2]
    /\ evaluate(operands[1]) = evaluate(operands[2])
    /\ ~answer.eq

\* C1: temper(temper(n, edo), edo) equals temper(n, edo): tempering a Note
\* again with the same edo returns an equal Note.
C1_TemperIdempotent ==
    (op.name = "temper_note" /\ op.again) => music = op.note

\* Within the range of a float the second temper_note returns its argument:
\* a tempered Note that is not a rest, and a rest.
C1_Witness ==
    /\ op.name = "temper_note" /\ op.again
    /\ music.type = "Note" /\ music.frequency.type = "Power"
    /\ music.frequency.exponent_numerator # 0
    /\ music = op.note

\* Tempering a Piece again with the same edo leaves every Note of it, of
\* any rational frequency the Fractions above hold, as it was.
TemperAgainUnchanged ==
    [][(op'.name = "temper" /\ op'.again) => music' = music]_vars

\* The factors of the ratios of an operator, in the order written.
RECURSIVE FactorsOfAll(_)
FactorsOfAll(ratios) ==
    IF ratios = <<>> THEN <<>>
    ELSE Factors(ratios[1]) \o FactorsOfAll(Tail(ratios))

\* new is old with the factors fs put before every Note's frequency: the
\* same nesting of tuples and lists, every duration and volume as it was.
RECURSIVE FrequenciesPrepended(_, _, _)
FrequenciesPrepended(fs, old, new) ==
    IF old.type = "Note"
    THEN /\ new.type = "Note"
         /\ new.frequency.type = "RatioProduct"
         /\ new.frequency.ratios = fs \o Factors(old.frequency)
         /\ new.duration = old.duration
         /\ new.volume = old.volume
    ELSE /\ new.type = old.type
         /\ Len(new.items) = Len(old.items)
         /\ \A i \in 1..Len(old.items) :
               FrequenciesPrepended(fs, old.items[i], new.items[i])

\* The same for the volumes, every frequency and duration as it was.
RECURSIVE VolumesPrepended(_, _, _)
VolumesPrepended(fs, old, new) ==
    IF old.type = "Note"
    THEN /\ new.type = "Note"
         /\ new.volume.type = "RatioProduct"
         /\ new.volume.ratios = fs \o Factors(old.volume)
         /\ new.duration = old.duration
         /\ new.frequency = old.frequency
    ELSE /\ new.type = old.type
         /\ Len(new.items) = Len(old.items)
         /\ \A i \in 1..Len(old.items) :
               VolumesPrepended(fs, old.items[i], new.items[i])

\* C6: the frequency-multiply operator returns Music of the same shape in
\* which every Note's frequency is the multiplier's factors followed by the
\* Note's own, every duration and volume unchanged; the volume-multiply
\* operator does the same to every volume, every frequency and duration
\* unchanged.  Music outside the operator's parentheses is left as it was.
C6_MultiplyOperators ==
    [][LET n == Len(music.items)
           old == IF op'.whole THEN music ELSE music.items[n]
           new == IF op'.whole THEN music' ELSE music'.items[n]
           rest == op'.whole \/
                     /\ Len(music'.items) = n
                     /\ \A i \in 1..(n - 1) : music'.items[i] = music.items[i]
       IN  /\ op'.name = "mult_expr" =>
                rest /\ FrequenciesPrepended(FactorsOfAll(op'.ratios), old, new)
           /\ op'.name = "power" =>
                rest /\ VolumesPrepended(Factors(op'.volume_multiplier), old, new)
      ]_vars

\* A multiplier of two factors has been applied around a chord: a member
\* that had one factor now has the two of the multiplier before it.
C6_Witness ==
    /\ op.name = "mult_expr"
    /\ Len(FactorsOfAll(op.ratios)) = 2
    /\ \E c \in Chords : \E i \in 1..Len(c.items) :
          /\ c.items[i].frequency.type = "RatioProduct"
          /\ Len(c.items[i].frequency.ratios) = 3
          /\ SubSeq(c.items[i].frequency.ratios, 1, 2) = FactorsOfAll(op.ratios)
          /\ c.items[i].frequency.ratios[3] # c.items[i].frequency.ratios[1]

\* C7: every Chord of the Piece has all its Notes sharing one duration and
\* one volume, as built and after any sequence of frequency-multiply
\* operators, volume-multiply operators and temper.
C7_ChordsShareDurationAndVolume ==
    \A c \in Chords : \A i, j \in 1..Len(c.items) :
        /\ c.items[i].duration = c.items[j].duration
        /\ c.items[i].volume = c.items[j].volume

\* A chord of Notes of different frequencies that has been through a
\* frequency-multiply operator, a volume-multiply operator and temper.
C7_Witness ==
    /\ nops = 2
    /\ op.name = "temper"
    /\ \E c \in Chords : \E i, j \in 1..Len(c.items) :
          /\ c.items[i].frequency.type = "Power"
          /\ c.items[j].frequency.type = "Power"
          /\ c.items[i].frequency # c.items[j].frequency
          /\ c.items[i].volume.type = "RatioProduct"
          /\ Len(c.items[i].volume.ratios) = 2
          /\ c.items[i].volume = c.items[j].volume

\* 2^a * y < x, for integers x, y > 0 and any integer a.
ScaledLess(a, y, x) ==
    IF a >= 0 THEN Pow(2, a) * y < x ELSE y < Pow(2, -a) * x

\* 2^a * y > x, likewise.
ScaledMore(a, y, x) ==
    IF a >= 0 THEN Pow(2, a) * y > x ELSE y > Pow(2, -a) * x

\* n is the nearest edo-step of the Fraction r > 0: n - 1/2 < e log2(r) <
\* n + 1/2, that is 2^(2n - 1) < r^(2e) < 2^(2n + 1).
IsNearestStep(n, r, e) ==
    LET x == Pow(r[1], 2 * e)
        y == Pow(r[2], 2 * e)
    IN  /\ ScaledLess(2 * n - 1, y, x)
        /\ ScaledMore(2 * n + 1, y, x)

StepRange == -4..4

NearestStepOf(r, e) == CHOOSE n \in StepRange : IsNearestStep(n, r, e)

RECURSIVE StepSum(_, _)
StepSum(rs, e) ==
    IF rs = <<>> THEN 0 ELSE NearestStepOf(rs[1], e) + StepSum(Tail(rs), e)

\* The product of the Fractions rs, as a Fraction.
ProductOf(rs) == Fraction(NumeratorProduct(rs, 1), DenominatorProduct(rs, 1))

IsRest(x) == NumeratorProduct(Factors(x.frequency), 1) = 0

\* C2: temper_note gives a Note that is not a rest the frequency
\* Power(2, S, edo): for a RatioProduct frequency S is the sum, over its
\* factors, of the nearest edo-step of each factor; for a plain rational
\* frequency f it is the nearest edo-step of f.
C2_TemperNoteSumsSteps ==
    [][(op'.name = "temper" /\ op'.edo.type # "None" /\ ~op'.again) =>
          /\ Len(notes_of(music')) = Len(notes_of(music))
          /\ \A i \in 1..Len(notes_of(music)) :
                LET x == notes_of(music)[i]
                    y == notes_of(music')[i]
                    e == op'.edo.value
                IN  ~IsRest(x) =>
                      /\ x.frequency.type = "RatioProduct" =>
                            y.frequency = Power(2, StepSum(x.frequency.ratios, e), e)
                      /\ x.frequency.type = "Fraction" =>
                            y.frequency = Power(2, NearestStepOf(x.frequency.value, e), e)
      ]_vars

\* "<>:1 3/2*3/2:1/2" tempered with edo 1: the Note has 1 + 1 = 2 steps,
\* and the nearest step of the product 9/4 is 1.
C2_Witness ==
    /\ nops = 0
    /\ op.name = "temper"
    /\ edo = Some(1)
    /\ music = Tuple(<<List(<<Tuple(<<>>),
                              Note(Power(2, 2, 1), Ratio(1, 2), Fr(<<1, 1>>))>>)>>)
    /\ StepSum(<<<<3, 2>>, <<3, 2>>>>, 1) = 2
    /\ NearestStepOf(ProductOf(<<<<3, 2>>, <<3, 2>>>>), 1) = 1

\* The Note x as it was before the n factors of a multiplier were put
\* before its frequency.
BeforeMultiplying(x, n) ==
    Note(RP(SubSeq(x.frequency.ratios, n + 1, Len(x.frequency.ratios))),
         x.duration, x.volume)

Steps(x) == x.frequency.exponent_numerator

\* The chords the last operator was applied to, by part and place: those of
\* the part being read, or those of the whole Piece.
MultipliedChords ==
    UNION {{<<p, k>> : k \in {k \in 1..Len(music.items[p].items) :
                                music.items[p].items[k].type = "tuple"}} :
           p \in {p \in 1..Len(music.items) : op.whole \/ p = Len(music.items)}}

\* The Piece has just been multiplied by m and is now tempered with edo e:
\* in every chord, for members m*a and m*b of it with a and b no rests and
\* value(m) as required, (steps of tempered m*a) - (steps of tempered m*b) is
\* (steps of tempered a) - (steps of tempered b).
IntervalsKept(AnyMultiplier) ==
    (op.name = "mult_expr" /\ op'.name = "temper" /\ op'.edo.type # "None") =>
        LET m == FactorsOfAll(op.ratios)
            e == op'.edo.value
        IN  (AnyMultiplier \/ NumeratorProduct(m, 1) # 0) =>
            \A pk \in MultipliedChords :
                LET c == music.items[pk[1]].items[pk[2]]
                    t == music'.items[pk[1]].items[pk[2]]
                IN  \A i, j \in 1..Len(c.items) :
                        LET a == BeforeMultiplying(c.items[i], Len(m))
                            b == BeforeMultiplying(c.items[j], Len(m))
                        IN  (~IsRest(a) /\ ~IsRest(b)) =>
                              /\ t.items[i].frequency.type = "Power"
                              /\ t.items[j].frequency.type = "Power"
                              /\ Steps(t.items[i]) - Steps(t.items[j]) =
                                   Steps(temper_note(a, e)) - Steps(temper_note(b, e))

\* C3 as stated, for every multiplier m: refuted by a multiplier with a
\* factor 0, which makes m*a and m*b rests that temper leaves untempered.
C3_IntervalsKeptEveryMultiplier == [][IntervalsKept(TRUE)]_vars

\* C3, amended: tempering keeps the intervals inside a chord fixed under
\* multiplication by every multiplier m whose value is not 0.
C3_IntervalsKept == [][IntervalsKept(FALSE)]_vars

\* "<1 3/2>:1" multiplied by 3/2 and tempered with edo 1: the members have
\* 1 and 2 steps, an octave-step apart as the 0 and 1 steps of 1 and 3/2.
C3_Witness ==
    /\ op.name = "temper"
    /\ edo = Some(1)
    /\ \E c \in Chords :
          /\ Len(c.items) = 2
          /\ c.items[1].frequency = Power(2, 1, 1)
          /\ c.items[2].frequency = Power(2, 2, 1)
          /\ c.items[1].volume = Fr(<<1, 1>>)
    /\ Steps(temper_note(Note(Ratio(1, 1), Ratio(1, 1), Fr(<<1, 1>>)), 1)) = 0
    /\ Steps(temper_note(Note(Ratio(3, 2), Ratio(1, 1), Fr(<<1, 1>>)), 1)) = 1

\* The bytes of a hex string of even length.
BytesOf(hex) == [i \in 1..(Len(hex) \div 2) |-> 16 * hex[2 * i - 1] + hex[2 * i]]

\* The value a sequence of bytes holds in its low seven bits, most
\* significant first.
RECURSIVE SevenBitValue(_)
SevenBitValue(bytes) ==
    IF bytes = <<>> THEN 0
    ELSE 128 * SevenBitValue(SubSeq(bytes, 1, Len(bytes) - 1))
             + (bytes[Len(bytes)] % 128)

\* C11: variable_length_quantity(n), n >= 0, is the shortest sequence of
\* bytes holding n in 7-bit groups, most significant first, the top bit set
\* on every byte but the last; decoded as a variable-length quantity it is n.
C11_VariableLengthQuantity ==
    answer.name = "variable_length_quantity" =>
        LET bytes == BytesOf(answer.hex)
            k == Len(bytes)
        IN  /\ Len(answer.hex) = 2 * k
            /\ k >= 1
            /\ \A i \in 1..k : bytes[i] \in 0..255
            /\ \A i \in 1..(k - 1) : bytes[i] >= 128
            /\ bytes[k] < 128
            /\ SevenBitValue(bytes) = answer.n
            /\ k > 1 => bytes[1] # 128

\* 16384 = 2^14 needs three bytes: 81 80 00.
C11_Witness ==
    /\ answer.name = "variable_length_quantity"
    /\ answer.n = 16384
    /\ answer.hex = <<8, 1, 8, 0, 0, 0>>

\* The events of a track body, read as a sequencer reads them: a delta time
\* as a variable-length quantity, a status byte, and the data bytes the
\* status calls for (a meta event FF holds its type, its length and its
\* data).  What cannot be read so is one Malformed event.
Malformed == [delta |-> -1, status |-> 0, channel |-> 0, data |-> <<>>]

RECURSIVE DeltaEnd(_, _)
DeltaEnd(bytes, i) ==
    IF i >= Len(bytes) \/ bytes[i] < 128 THEN i ELSE DeltaEnd(bytes, i + 1)

RECURSIVE EventsFrom(_, _)
EventsFrom(bytes, i) ==
    IF i > Len(bytes) THEN <<>>
    ELSE LET e == DeltaEnd(bytes, i)
             status == bytes[e + 1]
             n_data == IF status = 255 THEN 2 + bytes[e + 3]
                       ELSE IF status \div 16 = 12 THEN 1 ELSE 2
         IN  IF e + 1 > Len(bytes) \/ (status = 255 /\ e + 3 > Len(bytes))
             THEN <<Malformed>>
             ELSE IF status < 128 \/ e + 1 + n_data > Len(bytes)
             THEN <<Malformed>>
             ELSE <<[delta |-> SevenBitValue(SubSeq(bytes, i, e)),
                     status |-> IF status = 255 THEN 255 ELSE status \div 16,
                     channel |-> status % 16,
                     data |-> SubSeq(bytes, e + 2, e + 1 + n_data)]>>
                  \o EventsFrom(bytes, e + 2 + n_data)

EventsOf(hex) ==
    IF Len(hex) % 2 # 0 THEN <<Malformed>> ELSE EventsFrom(BytesOf(hex), 1)

PitchBendEvent == 14

NoteOnEvent == 9

NoteOffEvent == 8

\* The Notes of a Note or Chord, and the ticks an integral duration lasts.
MembersOf(notes) == IF notes.type = "Note" THEN <<notes>> ELSE notes.items

TicksOf(x) ==
    (evaluate(x.duration)[1] * DIVISION) \div evaluate(x.duration)[2]

\* C12: the events chord_to_midi returns for a Note or Chord of n members
\* are n pitch bends, then n note-ons, then n note-offs, the i-th of each
\* group for the i-th member on the i-th channel; every delta time is 0 but
\* that of the first note-off, which is the duration in ticks.
C12_ChordEventOrder ==
    (answer.name = "chord_to_midi" /\ answer.result.type = "str") =>
        LET ns == MembersOf(answer.notes)
            n == Len(ns)
            events == EventsOf(answer.result.value)
        IN  /\ Len(events) = 3 * n
            /\ \A i \in 1..n :
                LET midi_note == to_midi(ns[i], operands.f, operands.pitch_bend_range)
                    bend == events[i]
                    note_on == events[n + i]
                    note_off == events[2 * n + i]
                IN  /\ bend.status = PitchBendEvent
                    /\ note_on.status = NoteOnEvent
                    /\ note_off.status = NoteOffEvent
                    /\ bend.channel = answer.channels[i]
                    /\ note_on.channel = answer.channels[i]
                    /\ note_off.channel = answer.channels[i]
                    /\ bend.data[1] + 128 * bend.data[2] = midi_note.bend.value
                    /\ note_on.data = <<midi_note.pitch, midi_note.velocity>>
                    /\ note_off.data = <<midi_note.pitch, 0>>
                    /\ bend.delta = 0
                    /\ note_on.delta = 0
                    /\ note_off.delta = IF i = 1 THEN TicksOf(ns[1]) ELSE 0

\* <1 5/4 3/2>:1/2 on channels 1, 2, 3: nine events, the seventh the first
\* note-off, 3360 ticks after the note-ons.
C12_Witness ==
    /\ answer.name = "chord_to_midi"
    /\ answer.result.type = "str"
    /\ answer.channels = <<1, 2, 3>>
    /\ Len(MembersOf(answer.notes)) = 3
    /\ Len(EventsOf(answer.result.value)) = 9
    /\ EventsOf(answer.result.value)[7].delta = 3360
    /\ EventsOf(answer.result.value)[8].delta = 0

\* The channels left to the parts: 1 to 8 and 10 to 15.
ChannelPool == [i \in 1..14 |-> IF i <= 8 THEN i ELSE i + 1]

\* The events of a track chunk, and those of them that sound its Notes.
TrackEvents(track) == EventsOf(SubSeq(track, 17, Len(track)))

IsNoteEvent(e) == e.status \in {PitchBendEvent, NoteOnEvent, NoteOffEvent}

NoteEvents(track) == SelectSeq(TrackEvents(track), IsNoteEvent)

\* The number of note events of a part before those of its k-th chord.
NoteEventsBefore(p, k) ==
    3 * SumInt([j \in 1..(k - 1) |-> Len(MembersOf(p.items[j]))])

\* The channels of the note-ons of the k-th chord of part p in its track.
NoteOnChannels(p, k, track) ==
    LET n == Len(MembersOf(p.items[k]))
    IN  [i \in 1..n |-> NoteEvents(track)[NoteEventsBefore(p, k) + n + i].channel]

\* C13: when part_midi_tracks returns, the n-th part has the height(part)
\* channels of 1..8, 10..15 that follow those of the parts before it, none
\* of them 0 or 9, no channel is given to two parts, and the note-ons of
\* every chord are on pairwise different channels of its part.
C13_ChannelsOfParts ==
    (answer.name = "part_midi_tracks" /\ answer.result.type = "tuple") =>
        LET channels == answer.result.part_channels
            tracks == answer.result.midi_tracks
            parts == music.items
        IN  /\ Len(channels) = Len(parts)
            /\ Len(tracks) = Len(parts)
            /\ \A n \in 1..Len(parts) :
                LET before == SumInt([j \in 1..(n - 1) |-> height(parts[j])])
                IN  /\ before + height(parts[n]) <= Len(ChannelPool)
                    /\ channels[n] = [i \in 1..height(parts[n]) |->
                                         ChannelPool[before + i]]
                    /\ \A i \in 1..Len(channels[n]) : channels[n][i] \notin {0, 9}
            /\ \A n, m \in 1..Len(parts) :
                n # m => \A i \in 1..Len(channels[n]) : \A j \in 1..Len(channels[m]) :
                            channels[n][i] # channels[m][j]
            /\ \A n \in 1..Len(parts) : \A k \in 1..Len(parts[n].items) :
                LET on == NoteOnChannels(parts[n], k, tracks[n])
                IN  /\ Len(NoteEvents(tracks[n]))
                          = NoteEventsBefore(parts[n], Len(parts[n].items) + 1)
                    /\ \A i \in 1..Len(on) :
                          \E c \in 1..Len(channels[n]) : on[i] = channels[n][c]
                    /\ \A i, j \in 1..Len(on) : i # j => on[i] # on[j]

\* A part of height 8 and one of height 6 take all fourteen channels: 1 to
\* 8, then 10 to 15.
C13_Witness ==
    /\ answer.name = "part_midi_tracks"
    /\ answer.result.type = "tuple"
    /\ answer.result.part_channels
         = <<<<1, 2, 3, 4, 5, 6, 7, 8>>, <<10, 11, 12, 13, 14, 15>>>>
    /\ NoteOnChannels(music.items[2], 1, answer.result.midi_tracks[2])
         = <<10, 11, 12, 13, 14, 15>>

\* The sum of the heights of the parts of the Piece.
ChannelsNeeded == SumInt([n \in 1..Len(music.items) |-> height(music.items[n])])

\* C14: for a Piece whose parts need more than the 14 channels together,
\* part_midi_tracks raises and so does music_to_midi_file with pitch bends;
\* chord_to_midi raises when given fewer channels than the chord has Notes.
C14_NotEnoughChannels ==
    /\ (answer.name = "part_midi_tracks" /\ ChannelsNeeded > Len(ChannelPool))
          => Raised(answer.result)
    /\ (/\ answer.name = "part_midi_tracks"
        /\ ChannelsNeeded > Len(ChannelPool)
        /\ operands.parts.items # <<>>) => answer.result.type = "AssertionError"
    /\ (/\ answer.name = "music_to_midi_file"
        /\ operands.tuning_method = "PITCH_BEND"
        /\ ChannelsNeeded > Len(ChannelPool)) => Raised(answer.result)
    /\ (/\ answer.name = "chord_to_midi"
        /\ Len(answer.channels) < Len(MembersOf(answer.notes)))
          => answer.result = AssertionError

\* Two parts of height 8 need 16 channels: the second is left six of them
\* for its chord of eight Notes.
C14_Witness ==
    /\ answer.name = "part_midi_tracks"
    /\ [n \in 1..Len(music.items) |-> height(music.items[n])] = <<8, 8>>
    /\ answer.result = AssertionError

\* The integer a sequence of bytes holds, most significant byte first.
RECURSIVE BigEndian(_)
BigEndian(bytes) ==
    IF bytes = <<>> THEN 0
    ELSE 256 * BigEndian(SubSeq(bytes, 1, Len(bytes) - 1)) + bytes[Len(bytes)]

\* The chunks that follow one another from byte i on: a 4-byte type, a
\* 4-byte length and as many bytes of body.  Bytes that are no whole chunk
\* are one chunk of type <<>>.
RECURSIVE ChunksFrom(_, _)
ChunksFrom(bytes, i) ==
    IF i > Len(bytes) THEN <<>>
    ELSE IF i + 7 > Len(bytes)
              \/ i + 7 + BigEndian(SubSeq(bytes, i + 4, i + 7)) > Len(bytes)
    THEN <<[type |-> <<>>, body |-> <<>>]>>
    ELSE LET length == BigEndian(SubSeq(bytes, i + 4, i + 7))
         IN  <<[type |-> SubSeq(bytes, i, i + 3),
                body |-> SubSeq(bytes, i + 8, i + 7 + length)]>>
             \o ChunksFrom(bytes, i + 8 + length)

ChunksOf(hex) == IF Len(hex) % 2 # 0 THEN <<>> ELSE ChunksFrom(BytesOf(hex), 1)

\* "MThd" and "MTrk" in ASCII.
HeaderChunk == <<77, 84, 104, 100>>

TrackChunk == <<77, 84, 114, 107>>

EndOfTrackEvent == [delta |-> 0, status |-> 255, channel |-> 15, data |-> <<47, 0>>]

\* A track chunk whose body is whole events, the last of them end-of-track.
IsTrack(a_chunk) ==
    /\ a_chunk.type = TrackChunk
    /\ LET events == EventsFrom(a_chunk.body, 1)
       IN  /\ Len(events) >= 1
           /\ \A i \in 1..Len(events) : events[i] # Malformed
           /\ events[Len(events)] = EndOfTrackEvent

\* C15: the file music_to_midi_file writes is a header chunk that counts one
\* track more than the Piece has parts, followed by exactly that many track
\* chunks, each "MTrk", the length of its body in four bytes, and a body
\* ending with end-of-track; so is each track part_midi_tracks returns.
C15_TrackChunks ==
    /\ (answer.name = "music_to_midi_file" /\ answer.result.type = "file") =>
          LET chunks == ChunksOf(answer.result.hex)
          IN  /\ Len(chunks) = 2 + Len(music.items)
              /\ chunks[1].type = HeaderChunk
              /\ Len(chunks[1].body) = 6
              /\ BigEndian(SubSeq(chunks[1].body, 3, 4)) = 1 + Len(music.items)
              /\ \A i \in 2..Len(chunks) :
                    /\ IsTrack(chunks[i])
                    /\ ChunksOf(answer.result.all_tracks[i - 1]) = <<chunks[i]>>
    /\ (answer.name = "part_midi_tracks" /\ answer.result.type = "tuple") =>
          \A n \in 1..Len(answer.result.midi_tracks) :
              LET chunks == ChunksOf(answer.result.midi_tracks[n])
              IN  Len(chunks) = 1 /\ IsTrack(chunks[1])

\* Two parts written for a retuned synth: a header and three tracks, the
\* tempo track of 500000 microseconds a beat first.
C15_Witness ==
    /\ answer.name = "music_to_midi_file"
    /\ answer.result.type = "file"
    /\ operands.tuning_method = "SCALA"
    /\ Len(music.items) = 2
    /\ Len(ChunksOf(answer.result.hex)) = 4
    /\ ChunksOf(answer.result.hex)[2].body
         = <<0, 255, 81, 3, 7, 161, 32, 0, 255, 47, 0>>

\* What to_midi computes for the sounding Note of the operands before the
\* MidiNote is constructed: 60 + round(exact_semitones), round(volume * 64).
Sounding == evaluate(operands.note.frequency)[1] # 0

ComputedPitch ==
    60 + RoundHalfEven(TwelveLog2(evaluate(operands.note.frequency))
                         + SemitonesFromMiddleC(operands.f0), 100000)

ComputedVelocity ==
    RoundHalfEven(evaluate(operands.note.volume)[1] * 64,
                  evaluate(operands.note.volume)[2])

IntegralTicks == (evaluate(operands.note.duration)[1] * DIVISION)
                     % evaluate(operands.note.duration)[2] = 0

Converted ==
    /\ answer.name = "to_midi"
    /\ Sounding
    /\ IntegralTicks
    /\ operands.pitch_bend_range # 0

\* C16 as stated: to_midi raises whenever the computed pitch or the computed
\* velocity round(volume * 64) is outside 0..127.
C16_OutOfRangeAborts ==
    (Converted /\ (ComputedPitch \notin 0..127 \/ ComputedVelocity \notin 0..127))
        => Raised(answer.result)

\* C16: to_midi raises when the computed pitch is outside 0..127, and a
\* MidiNote is never constructed with a pitch or a velocity outside 0..127
\* or a bend outside 0..16383; but a velocity round(volume * 64) above 127 is
\* no error: the MidiNote returned has velocity 127.
C16_OutOfRangeAbortsOrClamps ==
    /\ (Converted /\ ComputedPitch \notin 0..127) => answer.result = AssertionError
    /\ (Converted /\ ComputedPitch \in 0..127 /\ ComputedVelocity >= 0) =>
          /\ answer.result.type = "MidiNote"
          /\ answer.result.pitch = ComputedPitch
          /\ answer.result.velocity
               = IF ComputedVelocity > 127 THEN 127 ELSE ComputedVelocity
    /\ (answer.name \in {"to_midi", "MidiNote"} /\ answer.result.type = "MidiNote") =>
          /\ answer.result.pitch \in 0..127
          /\ answer.result.velocity \in 0..127
          /\ answer.result.bend.type # "None" => answer.result.bend.value \in 0..16383
    /\ answer.name = "MidiNote" =>
          (Raised(answer.result) <=>
              \/ operands.pitch \notin 0..127
              \/ operands.velocity \notin 0..127
              \/ operands.bend.type # "None" /\ operands.bend.value \notin 0..16383)

\* 1:1:3 has round(3 * 64) = 192: a MidiNote of velocity 127 is returned.
C16_Witness ==
    /\ Converted
    /\ ComputedVelocity = 192
    /\ answer.result.type = "MidiNote"
    /\ answer.result.velocity = 127

\* C17: to_midi raises for a Note, sounding or a rest, whose duration times
\* DIVISION is not an integer; the ticks of a MidiNote it returns are the
\* duration times DIVISION exactly.
C17_TicksExact ==
    /\ (answer.name = "to_midi" /\ ~IntegralTicks) => answer.result = AssertionError
    /\ (answer.name = "to_midi" /\ answer.result.type = "MidiNote") =>
          answer.result.ticks * evaluate(operands.note.duration)[2]
              = evaluate(operands.note.duration)[1] * DIVISION

\* A rest of 1/13 of a beat would last 6720/13 ticks.
C17_Witness ==
    /\ answer.name = "to_midi"
    /\ ~Sounding
    /\ evaluate(operands.note.duration) = <<1, 13, 1>>
    /\ answer.result = AssertionError

\* The template returned for the duration of the operands, and the odd
\* part O of a denominator with the largest power of two R up to it.
Rendered == answer.name = "lilypond_duration" /\ answer.result.type = "str"

OddPart(n) == CHOOSE o \in 1..n : o % 2 = 1 /\ n % o = 0 /\ IsPow2(n \div o)

PowerOfTwoUpTo(n) == CHOOSE r \in 1..n : IsPow2(r) /\ r <= n /\ n < 2 * r

\* The beats the tied notes named by parts last together: a note named x
\* lasts 4 / x beats.
RECURSIVE BeatsOf(_)
BeatsOf(parts) ==
    IF parts = <<>> THEN <<0, 1>>
    ELSE FracAdd(<<4, parts[1]>>, BeatsOf(Tail(parts)))

\* 2^x as a Fraction.
PowerOfTwo(x) == IF x >= 0 THEN <<Pow(2, x), 1>> ELSE <<1, Pow(2, -x)>>

\* C18: the tuplet n/m of a template has n the odd part of the reduced
\* denominator of the duration, greater than 1, and m the largest power of
\* two up to n; a duration whose denominator is a power of two has no tuplet.
\* For a denominator 2^k - 1 that is n = 2^k - 1 and m = 2^(k - 1).
C18_TupletOddOverPowerOfTwo ==
    Rendered =>
        IF operands.duration.type = "RatioProduct"
        THEN LET denominator == evaluate(operands.duration)[2]
                 tuplet == answer.result.tuplet
             IN  IF IsPow2(denominator) THEN tuplet = None
                 ELSE /\ tuplet.type = "tuplet"
                      /\ tuplet.n = OddPart(denominator)
                      /\ tuplet.n % 2 = 1
                      /\ tuplet.n > 1
                      /\ tuplet.m = PowerOfTwoUpTo(tuplet.n)
        ELSE /\ answer.result.tuplet.n_exponent = operands.duration.denominator_exponent
             /\ answer.result.tuplet.m_exponent
                  = operands.duration.denominator_exponent - 1

\* 2^44 / (2^49 - 1) is written in a tuplet (2^49 - 1)/2^49.
C18_Witness ==
    /\ Rendered
    /\ operands.duration = PowerDuration(44, 49)
    /\ answer.result.tuplet.n_exponent = 49
    /\ answer.result.tuplet.m_exponent = 49

\* C19: the notes of a template are named after DURATIONS, and for the
\* duration num / (P * O), P a power of two, O odd and R the largest power of
\* two up to O, they last num / (P * R) beats together.
C19_NotesSumExactly ==
    Rendered =>
        /\ \A i \in 1..Len(answer.result.parts) :
              answer.result.parts[i] \in {1, 2, 4, 8, 16, 32, 64, 128}
        /\ IF operands.duration.type = "RatioProduct"
           THEN LET duration == evaluate(operands.duration)
                    O == OddPart(duration[2])
                    P == duration[2] \div O
                    R == PowerOfTwoUpTo(O)
                IN  BeatsOf(answer.result.parts) = Fraction(duration[1], P * R)
           ELSE BeatsOf(answer.result.parts)
                  = PowerOfTwo(operands.duration.numerator_exponent
                                 - (operands.duration.denominator_exponent - 1))

\* 2^44 / (2^49 - 1), with R = 2^48, is 1/16 of a beat in the tuplet: the
\* template holds one note named 128, 1/32 of a beat.
C19_Witness ==
    /\ Rendered
    /\ operands.duration = PowerDuration(44, 49)
    /\ answer.result.parts = <<128>>

\* The durations whose denominator a float tells from the power of two above.
BelowFloatPrecision ==
    operands.duration.type = "Fraction" =>
        operands.duration.denominator_exponent <= LastLog2Below

\* C18 and C19 for the denominators a float tells from the next power of two.
TupletsBelowFloatPrecision ==
    BelowFloatPrecision => (C18_TupletOddOverPowerOfTwo /\ C19_NotesSumExactly)

\* C20 as stated: a Note of 1/3 of a beat is one quarter note, named 4, in a
\* tuplet 3/2.
C20_ThirdIsQuarterNote ==
    (Rendered /\ operands.duration = Ratio(1, 3)) =>
        /\ answer.result.parts = <<4>>
        /\ answer.result.tuplet = Tuplet(3, 2)

\* C20: a Note of 1/3 of a beat is one eighth note, named 8, in a tuplet
\* 3/2, and is rendered.
C20_ThirdIsEighthNote ==
    (answer.name = "lilypond_duration" /\ operands.duration = Ratio(1, 3)) =>
        /\ answer.result.type = "str"
        /\ answer.result.parts = <<8>>
        /\ answer.result.tuplet = Tuplet(3, 2)

\* The eighth note of the tuplet lasts 1/2 * 2/3 = 1/3 of a beat.
C20_Witness ==
    /\ Rendered
    /\ operands.duration = Ratio(1, 3)
    /\ FracMul(BeatsOf(answer.result.parts), <<2, 3>>) = <<1, 3>>

\* C21: every analysis function and apply_to_notes fails with an error on a
\* value that is neither a Note, a tuple nor a list, empty and falsy values
\* of other types included: none of them returns a result for such a value.
Exceptions(value) ==
    {ToString(ValueError(value)), ToString(TypeError), ToString(RecursionError)}

Fails(value, result) == ToString(result) \in Exceptions(value)

IsMusic(value) == value.type \in {"Note", "tuple", "list"}

C21_OtherValuesFail ==
    answer # NoOp /\ ~IsMusic(operands) => Fails(operands, answer.result)

\* height(None) has returned 0.
C21_Witness ==
    /\ operands = None
    /\ answer = Returned("height", 0)

\* C22: two calls of music_to_midi_file with the same Music and the same
\* Config write byte-identical files, whatever calls (other encodes,
\* play_music with that Config) ran in between.
C22_SameFileEveryTime ==
    \A i, j \in 1..Len(answer.files) : answer.files[i] = answer.files[j]

\* The Piece was compiled, played, and compiled again with the Config, and
\* the two compiles wrote different files.
C22_Witness ==
    /\ op.name = "music_to_midi_file"
    /\ Len(answer.files) = 3
    /\ answer.files[1].type = "file" /\ answer.files[3].type = "file"
    /\ answer.files[1] # answer.files[3]

\* Without a play_music in between, the files are the same.
SameFileUnlessPlayed ==
    [][op'.name # "play_music" =>
        \A i \in 1..Len(answer.files) : answer'.files[i] = answer.files[i]
        /\ (Len(answer.files) > 0 /\ Len(answer'.files) > Len(answer.files)
             /\ operands' = operands
                => answer'.files[Len(answer'.files)] = answer.files[Len(answer.files)])]_vars

\* C23: temper changes nothing but the frequencies of the Notes that are no
\* rests: every rest is returned as it was, every duration and volume is as
\* it was, and so is the nesting (the Parts, their events and the members
\* of the chords, in number and order), so that total_duration and height
\* are those of the Piece before; with edo = None the Piece is returned
\* unchanged.
IsSilent(x) ==
    CASE x.frequency.type = "RatioProduct" ->
            \E i \in 1..Len(x.frequency.ratios) : x.frequency.ratios[i][1] = 0
      [] x.frequency.type = "Fraction" -> x.frequency.value[1] = 0
      [] x.frequency.type = "Power" -> FALSE

RECURSIVE OnlyFrequenciesChanged(_, _)
OnlyFrequenciesChanged(old, new) ==
    IF old.type = "Note"
    THEN /\ new.type = "Note"
         /\ new.duration = old.duration
         /\ new.volume = old.volume
         /\ IsSilent(old) => new = old
    ELSE /\ new.type = old.type
         /\ Len(new.items) = Len(old.items)
         /\ \A i \in 1..Len(old.items) :
                OnlyFrequenciesChanged(old.items[i], new.items[i])

C23_TemperChangesFrequenciesOnly ==
    [][op'.name = "temper" =>
          /\ OnlyFrequenciesChanged(music, music')
          /\ total_duration(music') = total_duration(music)
          /\ height(music') = height(music)
          /\ op'.edo.type = "None" => music' = music
      ]_vars

\* A Piece with a rest, and with a Note of a volume other than 1 that is now
\* a step of the edo, has been tempered.
C23_Witness ==
    /\ op.name = "temper"
    /\ op.edo.type # "None"
    /\ \E x \in AllNotes : IsSilent(x)
    /\ \E x \in AllNotes : x.frequency.type = "Power" /\ x.volume # Fr(<<1, 1>>)
    /\ \E i \in 1..Len(music.items) : music.items[i].items = <<>>

\* C24: for a chord whose members all have RatioProduct frequencies, the
\* root annotation of lilypond_chord is the product of the longest common
\* prefix of the members' factor sequences (never longer than the shortest
\* sequence), each member's annotation is the product of its remaining
\* factors, and root times a member's annotation is that member's
\* frequency; a chord with a tempered (Power) member has no ratio annotation.
FractionOfStr(str) ==
    IF Len(str.value) = 1 THEN <<str.value[1], 1>> ELSE <<str.value[1], str.value[2]>>

FactorsOfMember(i) == operands.items[i].frequency.ratios

\* The first k factors are the same in every member.
IsCommonPrefix(k) ==
    \A i \in 1..Len(operands.items) :
        /\ k <= Len(FactorsOfMember(i))
        /\ SubSeq(FactorsOfMember(i), 1, k) = SubSeq(FactorsOfMember(1), 1, k)

LongestCommonPrefix ==
    CHOOSE k \in 0..Len(FactorsOfMember(1)) :
        IsCommonPrefix(k) /\ ~IsCommonPrefix(k + 1)

Orders(n) == {f \in [1..n -> 1..n] : \A i, j \in 1..n : f[i] = f[j] => i = j}

RatiosOfChord(ratios) ==
    LET n == Len(operands.items)
        k == LongestCommonPrefix
        root == FractionOfStr(ratios.base)
    IN  /\ root = ProductOf(SubSeq(FactorsOfMember(1), 1, k))
        /\ Len(ratios.freqs) = n
        /\ \E f \in Orders(n) : \A i \in 1..n :
              LET own == FractionOfStr(ratios.freqs[i])
                  member == FactorsOfMember(f[i])
              IN  /\ own = ProductOf(SubSeq(member, k + 1, Len(member)))
                  /\ FracMul(root, own) = ProductOf(member)

RatiosAsClaimed(chords) ==
    (answer.name = "lilypond_chord" /\ operands \in chords) =>
        /\ (\A i \in 1..Len(operands.items) :
                operands.items[i].frequency.type = "RatioProduct")
              => RatiosOfChord(answer.result.ratios)
        /\ (\E i \in 1..Len(operands.items) :
                operands.items[i].frequency.type = "Power")
              => answer.result.ratios = Str(<<>>)

C24_RootIsCommonPrefix == RatiosAsClaimed(LilypondChords \ {Tuple(<<>>)})

\* The chord 2*<1 0> has been rendered with the root "1".
C24_Witness ==
    /\ answer.name = "lilypond_chord"
    /\ operands.items = <<Note(RP(<<<<2, 1>>, <<2, 1>>>>), Ratio(1, 1), Fr(<<1, 1>>)),
                          Note(RP(<<<<2, 1>>, <<0, 1>>>>), Ratio(1, 1), Fr(<<1, 1>>))>>
    /\ answer.result.ratios.base = Str(<<1>>)

\* The claim holds of every chord without a rest.
RatiosOfSoundingChords ==
    RatiosAsClaimed({c \in LilypondChords \ {Tuple(<<>>)} :
                        \A i \in 1..Len(c.items) : ~IsSilent(c.items[i])})

\* C25: in the track of every Part that is encoded, with pitch bends or for
\* a retuned synth, the delta times add up to total_duration(part) *
\* DIVISION: each Note or Chord has its duration in ticks on its first
\* note-off, every other event (program changes and end-of-track included)
\* has delta 0, and every note-on is followed in its chord by a note-off on
\* the same channel and pitch.
IsOnOrOff(e) == e.status \in {NoteOnEvent, NoteOffEvent}

DeltaSum(events) == SumInt([i \in 1..Len(events) |-> events[i].delta])

\* The number of note-ons and note-offs of a part before its k-th chord.
OnsAndOffsBefore(p, k) ==
    2 * SumInt([j \in 1..(k - 1) |-> Len(MembersOf(p.items[j]))])

TrackKeepsTime(p, events, sounding) ==
    /\ \A i \in 1..Len(events) : events[i] # Malformed
    /\ DeltaSum(events) * total_duration(p)[2] = total_duration(p)[1] * DIVISION
    /\ total_duration(p)[3] = 1
    /\ \A i \in 1..Len(events) : ~IsOnOrOff(events[i]) => events[i].delta = 0
    /\ Len(sounding) = OnsAndOffsBefore(p, Len(p.items) + 1)
    /\ \A k \in 1..Len(p.items) :
          LET n == Len(MembersOf(p.items[k]))
              before == OnsAndOffsBefore(p, k)
          IN  \A i \in 1..n :
                LET note_on == sounding[before + i]
                    note_off == sounding[before + n + i]
                IN  /\ note_on.status = NoteOnEvent
                    /\ note_off.status = NoteOffEvent
                    /\ note_off.channel = note_on.channel
                    /\ note_off.data[1] = note_on.data[1]
                    /\ note_on.delta = 0
                    /\ note_off.delta = IF i = 1 THEN TicksOf(MembersOf(p.items[k])[1])
                                        ELSE 0

TracksKeepTime(tracks) ==
    \A n \in 1..Len(music.items) :
        TrackKeepsTime(music.items[n], TrackEvents(tracks[n]),
                       SelectSeq(TrackEvents(tracks[n]), IsOnOrOff))

C25_DeltasSumToDuration ==
    /\ (answer.name = "music_to_midi_file" /\ answer.result.type = "file") =>
          /\ Len(answer.result.all_tracks) = 1 + Len(music.items)
          /\ TracksKeepTime(Tail(answer.result.all_tracks))
    /\ (answer.name = "part_midi_tracks" /\ answer.result.type = "tuple") =>
          TracksKeepTime(answer.result.midi_tracks)

\* A part of a chord of three Notes of 1/2 beat and a Note of 3 beats is
\* written for a retuned synth: 3360 + 20160 ticks.
C25_Witness ==
    /\ answer.name = "music_to_midi_file"
    /\ answer.result.type = "file"
    /\ operands.tuning_method = "SCALA"
    /\ Len(music.items) = 1
    /\ Len(music.items[1].items) = 2
    /\ Len(MembersOf(music.items[1].items[1])) = 3
    /\ DeltaSum(TrackEvents(answer.result.all_tracks[2])) = 23520

\* C26: part_midi_tracks fails with "Not enough channels" only when
\* channels are lacking: for a Piece whose parts' heights add up to 14 at
\* most it does not, wherever parts of height 0 are in it.
C26_ChannelsSuffice ==
    (answer.name = "part_midi_tracks" /\ ChannelsNeeded <= Len(ChannelPool))
        => answer.result # NotEnoughChannels

\* Parts of heights 8 and 6 and an empty part after them: the fourteen
\* channels are enough, and the call has failed for the empty part.
C26_Witness ==
    /\ answer.name = "part_midi_tracks"
    /\ [n \in 1..Len(music.items) |-> height(music.items[n])] = <<8, 6, 0>>
    /\ answer.result = NotEnoughChannels

\* With a channel to spare the call does not fail so, and with too few
\* channels it fails one way or another.
ChannelsSufficeWithOneToSpare ==
    (answer.name = "part_midi_tracks" /\ ChannelsNeeded < Len(ChannelPool))
        => answer.result # NotEnoughChannels

\* C27: tempo_track(t0), t0 > 0, either returns a track whose tempo event
\* FF 51 03 is followed by exactly the 3 bytes that hold round(t0 * 10^6)
\* and then by end-of-track, or fails; a value of round(t0 * 10^6) that
\* needs more than 24 bits is never written.
Microseconds == RoundHalfEven(operands[1] * 1000000, operands[2])

TempoBytes == 3

\* The track is one chunk whose body is the tempo event and end-of-track.
IsTempoTrack(track) ==
    LET chunks == ChunksOf(track)
        body == chunks[1].body
    IN  /\ Len(chunks) = 1
        /\ chunks[1].type = TrackChunk
        /\ Len(body) = 4 + TempoBytes + 4
        /\ SubSeq(body, 1, 4) = <<0, 255, 81, TempoBytes>>
        /\ BigEndian(SubSeq(body, 5, 4 + TempoBytes)) = Microseconds
        /\ SubSeq(body, 5 + TempoBytes, Len(body)) = <<0, 255, 47, 0>>

C27_TempoEventWellFormed ==
    answer.name = "tempo_track" =>
        \/ Raised(answer.result)
        \/ answer.result.type = "str" /\ IsTempoTrack(answer.result.value)

\* For t0 = 300 s a track has been returned whose tempo event announces 3
\* bytes and is followed by the 4 bytes 11 E1 A3 00.
C27_Witness ==
    /\ answer.name = "tempo_track"
    /\ operands = <<300, 1>>
    /\ answer.result.type = "str"
    /\ SubSeq(BytesOf(answer.result.value), 9, 20)
          = <<0, 255, 81, 3, 17, 225, 163, 0, 0, 255, 47, 0>>

\* Up to 24 bits the tempo event is well formed, and a value of 25 to 28
\* bits makes the call fail.
TempoEventUpTo28Bits ==
    answer.name = "tempo_track" =>
        /\ Microseconds < 16777216 =>
              answer.result.type = "str" /\ IsTempoTrack(answer.result.value)
        /\ (Microseconds >= 16777216 /\ Microseconds < 268435456) =>
              answer.result = AssertionError

\* C28: process_part always ends, after at most 10 calls of the part
\* renderer: it returns what the first attempt that does not raise
\* RenderError returns, raises RenderError after 10 failed attempts in a
\* row, and for a part without a sounding frequency returns an empty buffer
\* without a call of the renderer.
NoSoundingNote(p) ==
    \A i \in 1..Len(notes_of(p)) : IsSilent(notes_of(p)[i])

ProcessPartOutcome ==
    /\ nops <= MaxAttempts
    /\ op.n <= nops
    /\ answer # NoOp =>
          /\ op.pc = "done"
          /\ NoSoundingNote(operands.part) =>
                /\ nops = 0
                /\ answer.result = [type |-> "ndarray", shape |-> <<2, 0>>]
          /\ ~NoSoundingNote(operands.part) =>
                \/ /\ answer.result = RenderError
                   /\ op.n = MaxAttempts
                   /\ nops = MaxAttempts
                \/ /\ answer.result # RenderError
                   /\ nops = op.n + 1
                   /\ answer.result.type = "ndarray" => answer.result.attempt = nops

C28_ProcessPartEnds == [](ProcessPartOutcome) /\ <>(op.pc = "done")

\* The renderer has failed ten times and process_part has raised.
C28_Witness ==
    /\ op.pc = "done"
    /\ nops = MaxAttempts
    /\ answer # NoOp
    /\ answer.result = RenderError

\* C29: after any sequence of setup_surge calls at most one SurgeSynthesizer
\* has been created; a call made while an instance exists creates nothing
\* and leaves the instance as it is, and it returns if the requested
\* sample rate is the instance's and fails otherwise.
CallWithInstance ==
    op.SURGE # None =>
        /\ op'.SURGE = op.SURGE
        /\ op'.created = op.created
        /\ IF operands'[nops'] = getSampleRate(op.SURGE)
           THEN answer'.result = None
           ELSE answer'.result = DifferentSampleRate

C29_AtMostOneSurge ==
    /\ [](op.created <= 1 /\ (op.SURGE # None <=> op.created = 1))
    /\ [][CallWithInstance]_vars

\* A synth of 44100 Hz exists and a call for 48000 Hz has just failed.
C29_Witness ==
    /\ op.created = 1
    /\ op.SURGE # None
    /\ getSampleRate(op.SURGE) = 44100
    /\ operands[nops] = 48000
    /\ answer.result = DifferentSampleRate

\* C30: every Zyn process started by play_with_zyn has been killed when
\* play_with_zyn returns or fails, whatever happened after the start (a
\* failing readiness poll, a failing aplaymidi), and the readiness wait is
\* at most 50 polls.
ZynStarted == op.p # None

C30_ZynKilledAtEnd ==
    /\ nops <= MaxPolls
    /\ (op.pc = "done" /\ ZynStarted) => op.p.state = "killed"

\* aplaymidi has exited nonzero after Zyn was listed at the first poll:
\* play_with_zyn has raised and Zyn is running.
C30_Witness ==
    /\ op.pc = "done"
    /\ ZynStarted
    /\ op.p.state = "running"
    /\ nops = 1
    /\ answer.result = CalledProcessError("aplaymidi")

\* The wait is at most 50 polls, the call always ends, and Zyn is killed
\* exactly when the call returns.
ZynKilledOnReturn ==
    /\ [](nops <= MaxPolls /\ op.n <= nops)
    /\ []((op.pc = "done" /\ ZynStarted) =>
              (op.p.state = "killed" <=> answer.result = None))
    /\ <>(op.pc = "done")

=============================================================================
